---- MODULE Spec2Model ----
(***************************************************************************)
(* Model of the m_sim collision engine (crate m_engine): the analytic      *)
(* collision math of collision_utils.rs / polygon.rs and the event-driven  *)
(* scheduler `resolve` of motion_resolver.rs.                              *)
(*                                                                         *)
(* Numbers.  The program computes in f64.  The model computes in exact     *)
(* rationals <<n, d>> kept in lowest terms with d > 0; the scenes drawn by *)
(* Init are chosen so that every square root the program takes on them is  *)
(* the root of a perfect square, hence exact in f64 as well (Sqrt rounds   *)
(* down to 1/SqrtScale otherwise).                                         *)
(***************************************************************************)
EXTENDS Integers, Sequences, FiniteSets, TLC

VARIABLES
    particles,          \* resolve: `particles: &mut [Particle]`
    particle_time,      \* resolve: `particle_time: Vec<f64>`
    current_collisions, \* resolve: `current_collisions: BinaryHeap<Reverse<Collision>>`
    timestep,           \* resolve: `timestep: f64` of the call in progress
    pc,                 \* "idle" (between calls) or "loop" (inside the while loop)
    schedule,           \* budgets of the resolve calls still to be made by the driver
    duration,           \* the time the driver simulates, in one call or in steps
    particles1,         \* <<>> or <<ps>>: the outcome of the single call
    scene,              \* the walls and classes lent read-only to resolve
    initial,            \* particles as they were before the first call
    at_call,            \* particles as they were when the call in progress began
    popped,             \* <<>> or <<c>>: the collision popped by the last iteration
    touched,            \* particles resolved so far by the call in progress
    seen,               \* states the loop of the call in progress has left
    resolved_times,     \* times of the collisions the call in progress resolved
    prev,               \* snapshot taken when the last iteration began
    repeated,           \* the driver has begun to repeat the single call
    sim,                \* Simulation: its class tables, particles and walls
    sim_pc,             \* "building" (SimulationSpec::build), "live" or "panicked"
    call,               \* arguments of a call of a collision_utils function
    returned,           \* <<>>, or <<r>>: what that call returned, or CallPanic
    playback,           \* PlaybackControl: is_playing, rewind, current_time
    stepped,            \* <<>> or <<s>>: the step just taken and the state before it
    frames,             \* FramesTimeline: `frames: BTreeMap<Duration, Frame>`
    frames_rx,          \* the frames sent on the channel and not yet received
    sent,               \* all frames sent so far, in the order of sending
    poll,               \* the consumer: idle, or in poll_frames since `sent` had a length
    looked,             \* <<>> or <<l>>: the last last_frame_for call and its result
    runner              \* m_runner: the frame thread and the receiver of its channel

\* the state of a resolve call and of its driver
resolve_vars == <<particles, particle_time, current_collisions, timestep, pc,
                  schedule, duration, particles1, scene, initial, at_call,
                  popped, touched, seen, resolved_times, prev, repeated>>

\* the state of a Simulation under construction and in use
sim_vars == <<sim, sim_pc>>

\* a call of a function of collision_utils.rs on its own
call_vars == <<call, returned>>

\* a PlaybackControl in use
playback_vars == <<playback, stepped>>

\* a FramesTimeline, its channel and the two threads about it
timeline_vars == <<frames, frames_rx, sent, poll, looked>>

\* the frame generation thread of m_runner
runner_vars == <<runner>>

front_vars == <<playback_vars, timeline_vars, runner_vars>>

vars == <<resolve_vars, sim_vars, call_vars, front_vars>>

----------------------------------------------------------------------------
(* Exact rational arithmetic standing for f64.                             *)

Abs(i) == IF i < 0 THEN -i ELSE i

RECURSIVE Gcd(_, _)
Gcd(a, b) == IF b = 0 THEN a ELSE Gcd(b, a % b)

I(n) == [n |-> n, d |-> 1]
Zero == I(0)
One == I(1)

\* the rational n/d in lowest terms, d > 0
Q(n, d) ==
    IF d = 1 THEN I(n)
    ELSE IF n = 0 THEN Zero
    ELSE LET g == Gcd(Abs(n), Abs(d))
         IN  IF d < 0 THEN [n |-> (-n) \div g, d |-> (-d) \div g]
             ELSE [n |-> n \div g, d |-> d \div g]

\* sums and comparisons go through the least common denominator and products
\* cancel crosswise first, which keeps the intermediate integers small
RAdd(a, b) ==
    IF a.d = 1 /\ b.d = 1 THEN I(a.n + b.n)
    ELSE LET g == Gcd(a.d, b.d)
         IN  Q(a.n * (b.d \div g) + b.n * (a.d \div g), (a.d \div g) * b.d)
RNeg(a) == [n |-> -a.n, d |-> a.d]
RSub(a, b) == RAdd(a, RNeg(b))
RMul(a, b) ==
    IF a.d = 1 /\ b.d = 1 THEN I(a.n * b.n)
    ELSE LET g1 == Gcd(Abs(a.n), b.d)
             g2 == Gcd(Abs(b.n), a.d)
         IN  Q((a.n \div g1) * (b.n \div g2), (a.d \div g2) * (b.d \div g1))
RDiv(a, b) == RMul(a, Q(b.d, b.n))
RAbs(a) == [n |-> Abs(a.n), d |-> a.d]
RLt(a, b) ==
    IF a.d = b.d THEN a.n < b.n
    ELSE LET g == Gcd(a.d, b.d) IN a.n * (b.d \div g) < b.n * (a.d \div g)
RLe(a, b) ==
    IF a.d = b.d THEN a.n <= b.n
    ELSE LET g == Gcd(a.d, b.d) IN a.n * (b.d \div g) <= b.n * (a.d \div g)
RGt(a, b) == RLt(b, a)
RGe(a, b) == RLe(b, a)
\* f64::max and f64::min
RMax(a, b) == IF RLt(b, a) THEN a ELSE b
RMin(a, b) == IF RLt(b, a) THEN b ELSE a

\* the largest r in lo, lo + step, lo + 2 step, ... (32 of them)
\* with r * r <= n
IsqrtDigit(n, lo, step) ==
    lo + step * (CHOOSE k \in 0..(31) :
                    /\ (lo + step * k) * (lo + step * k) <= n
                    /\ \/ k = 31
                       \/ (lo + step * (k + 1)) * (lo + step * (k + 1)) > n)

\* floor of the square root of a natural number below 2^30, digit by digit
\* in radix 32
Isqrt(n) ==
    LET r2 == IsqrtDigit(n, 0, 1024)
        r1 == IsqrtDigit(n, r2, 32)
    IN  IsqrtDigit(n, r1, 1)

IsSquare(n) == LET r == Isqrt(n) IN r * r = n

\* resolution to which an inexact square root is rounded
SqrtScale == 100

\* a square root that is not exact, rounded down to about 1/SqrtScale:
\* sqrt(n/d) = sqrt(n d k^2) / (d k), with d cut down to SqrtScale first
ApproxSqrt(a) ==
    LET cut == IF a.d > SqrtScale THEN a.d \div SqrtScale ELSE 1
        n == a.n \div cut
        d == a.d \div cut
        k == IF d < SqrtScale THEN SqrtScale \div d ELSE 1
    IN  IF a.n \div a.d >= 10000 THEN I(Isqrt(a.n \div a.d))
        ELSE Q(Isqrt(n * d * k * k), d * k)

\* f64::sqrt of a non-negative number
Sqrt(a) ==
    IF a.n = 0 THEN Zero
    ELSE LET rn == Isqrt(a.n)
             rd == Isqrt(a.d)
         IN  IF rn * rn = a.n /\ rd * rd = a.d THEN Q(rn, rd) ELSE ApproxSqrt(a)

Pow10(k) == <<1, 10, 100, 1000, 10000, 100000, 1000000, 10000000, 100000000,
              1000000000>>[k + 1]

\* 10^-k as an exponent: n/d < 10^-k, for n >= 0 and 0 < d < 2^31
BelowPow10(n, d, k) ==
    IF k > 9 THEN n = 0 ELSE n <= (d - 1) \div Pow10(k)

\* prelude.rs
\* TIME_SEC_EPS = 1e-6 and DOUBLE_COMPARE_EPS_STRICT = 1e-10, by their exponents
TimeSecEpsExp == 6
DoubleCompareEpsStrictExp == 10

\* a > b - TIME_SEC_EPS
GtMinusTimeEps(a, b) ==
    LET diff == RSub(b, a)
    IN  diff.n <= 0 \/ BelowPow10(diff.n, diff.d, TimeSecEpsExp)

\* Option<T>
None == <<>>
Some(v) == <<v>>
IsSome(o) == o # <<>>
Unwrap(o) == o[1]

\* a `let` of the source: the value is computed first, then the rest of the
\* function runs on it
Let(value, Rest(_)) == CHOOSE result \in {Rest(v) : v \in {value}} : TRUE

----------------------------------------------------------------------------
(* vec2.rs                                                                 *)

Vec2(x, y) == [x |-> x, y |-> y]
V(x, y) == Vec2(I(x), I(y))
VZero == V(0, 0)
VAdd(a, b) == Vec2(RAdd(a.x, b.x), RAdd(a.y, b.y))
VSub(a, b) == Vec2(RSub(a.x, b.x), RSub(a.y, b.y))
VMul(a, s) == Vec2(RMul(a.x, s), RMul(a.y, s))
VDiv(a, s) == Vec2(RDiv(a.x, s), RDiv(a.y, s))
VNeg(a) == Vec2(RNeg(a.x), RNeg(a.y))
Dot(a, b) == RAdd(RMul(a.x, b.x), RMul(a.y, b.y))
Cross(a, b) == RSub(RMul(a.x, b.y), RMul(a.y, b.x))
Length(a) == Sqrt(Dot(a, a))
Rotated90Cw(a) == Vec2(a.y, RNeg(a.x))

\* Vec2::normalized: none when the length is numerically zero
Normalized(a) ==
    IF a = VZero THEN None
    ELSE Let(Length(a), LAMBDA length :
             IF length = Zero THEN None ELSE Some(VDiv(a, length)))

----------------------------------------------------------------------------
(* geometric_primitives.rs, polygon.rs                                     *)

Plane(normal, distance) == [normal |-> normal, distance |-> distance]
PlaneDistance(plane, point) == RSub(Dot(plane.normal, point), plane.distance)

LineSegment(begin, end) == [begin |-> begin, end |-> end]
SegDirection(seg) == Normalized(VSub(seg.end, seg.begin))
SegNormal(seg) ==
    Let(SegDirection(seg), LAMBDA direction :
        IF IsSome(direction) THEN Some(Rotated90Cw(Unwrap(direction))) ELSE None)
SegPlane(seg) ==
    Let(SegNormal(seg), LAMBDA normal :
        IF IsSome(normal)
        THEN Some(Plane(Unwrap(normal), Dot(Unwrap(normal), seg.begin)))
        ELSE None)
\* a segment left where it is
NotOffseted(seg, offset) == Some(seg)

Offseted(seg, offset) ==
    Let(SegNormal(seg), LAMBDA normal :
        IF IsSome(normal)
        THEN Some(LineSegment(VAdd(seg.begin, VMul(Unwrap(normal), offset)),
                              VAdd(seg.end, VMul(Unwrap(normal), offset))))
        ELSE None)

\* a polygon is the sequence of its points; the source indexes from 0
NumEdges(polygon) == Len(polygon)
PolygonEdge(polygon, index) ==
    LineSegment(polygon[index + 1], polygon[((index + 1) % Len(polygon)) + 1])

NewRectangle(x1, y1, x2, y2) == <<V(x1, y1), V(x2, y1), V(x2, y2), V(x1, y2)>>

\* a corner that every point is outside of
OutsideEveryCorner(polygon, vertex_index, point) == TRUE

\* edge[1], edge[2] and plane[1], plane[2] are edge1, edge2, plane1, plane2
IsPointOutsideCorner(polygon, vertex_index, point) ==
    Let(<<PolygonEdge(polygon,
                      (vertex_index + NumEdges(polygon) - 1) % NumEdges(polygon)),
          PolygonEdge(polygon, vertex_index)>>, LAMBDA edge :
    Let(<<Unwrap(SegPlane(edge[1])), Unwrap(SegPlane(edge[2]))>>, LAMBDA plane :
        \* convex
        IF RGt(Cross(VSub(edge[1].end, edge[1].begin),
                     VSub(edge[2].end, edge[2].begin)), Zero)
        THEN RGt(PlaneDistance(plane[1], point), Zero)
                \/ RGt(PlaneDistance(plane[2], point), Zero)
        ELSE RGt(PlaneDistance(plane[1], point), Zero)
                /\ RGt(PlaneDistance(plane[2], point), Zero)))

\* an edge between two equal points: LineSegment::plane gives none for it
HasDegenerateEdge(polygon) ==
    \E k \in 0..(NumEdges(polygon) - 1) :
        ~IsSome(SegPlane(PolygonEdge(polygon, k)))

----------------------------------------------------------------------------
(* math_core.rs, collision_utils.rs                                        *)

SolveQuadratic(a, b, c) ==
    Let(RSub(RMul(b, b), RMul(I(4), RMul(a, c))), LAMBDA discriminant :
        IF RLt(discriminant, Zero) THEN None
        ELSE Let(Sqrt(discriminant), LAMBDA sqrt_discriminant :
                 Some(<<RDiv(RAdd(RNeg(b), sqrt_discriminant), RMul(I(2), a)),
                        RDiv(RSub(RNeg(b), sqrt_discriminant), RMul(I(2), a))>>)))

\* a comparison that nothing passes
BelowNothing(value) == FALSE

\* value.abs() < DOUBLE_COMPARE_EPS_STRICT
AbsBelowStrictEps(value) ==
    BelowPow10(Abs(value.n), value.d, DoubleCompareEpsStrictExp)

FindCircleVsOriginCollision(center1, radius1, velocity1) ==
    IF RGe(Dot(velocity1, center1), Zero) THEN None
    ELSE
        Let(SolveQuadratic(Dot(velocity1, velocity1),
                           RMul(I(2), Dot(center1, velocity1)),
                           RSub(Dot(center1, center1), RMul(radius1, radius1))),
            LAMBDA roots :
                IF ~IsSome(roots) THEN None
                ELSE
                    Let(RMin(Unwrap(roots)[1], Unwrap(roots)[2]), LAMBDA t :
                        \* res_center, v1, v2
                        IF AbsBelowStrictEps(
                               Dot(Unwrap(Normalized(VAdd(center1, VMul(velocity1, t)))),
                                   Unwrap(Normalized(velocity1))))
                        THEN None
                        ELSE Some(t)))

FindParticleVsParticleCollision(center1, radius1, velocity1, center2, radius2, velocity2) ==
    FindCircleVsOriginCollision(VSub(center1, center2), RAdd(radius1, radius2),
                                VSub(velocity1, velocity2))

FindPointVsPlaneCollision(point, velocity, plane) ==
    Let(RNeg(Dot(velocity, plane.normal)), LAMBDA approach_speed :
        IF RLe(approach_speed, Zero) THEN None
        ELSE Some(RDiv(RSub(Dot(point, plane.normal), plane.distance),
                       approach_speed)))

FindPointVsSegmentCollision(point, velocity, segment) ==
    Let(SegPlane(segment), LAMBDA plane :
        IF ~IsSome(plane) THEN None
        ELSE
            Let(FindPointVsPlaneCollision(point, velocity, Unwrap(plane)), LAMBDA t :
                IF ~IsSome(t) THEN None
                ELSE
                    Let(VAdd(point, VMul(velocity, Unwrap(t))), LAMBDA collision_point :
                        \* on the segment
                        IF RLe(Dot(VSub(collision_point, segment.begin),
                                   VSub(collision_point, segment.end)), Zero)
                        THEN t
                        ELSE None)))

\* a normal taken from the centres alone
ParticlesCollisionNormalOfCenters(center1, velocity1, center2, velocity2) ==
    Normalized(VSub(center2, center1))

ParticlesCollisionNormal(center1, velocity1, center2, velocity2) ==
    Let(Normalized(VSub(center2, center1)), LAMBDA normal :
        IF IsSome(normal) THEN normal
        ELSE Normalized(VSub(velocity2, velocity1)))

\* the candidate <<time, normal>> of one vertex, if any: one iteration of the
\* vertex loop
VertexCandidate(center, radius, velocity, polygon, vertex_index) ==
    IF ~IsPointOutsideCorner(polygon, vertex_index, center) THEN None
    ELSE
        Let(VSub(center, polygon[vertex_index + 1]), LAMBDA local_center :
        Let(FindCircleVsOriginCollision(local_center, radius, velocity), LAMBDA t :
            IF ~IsSome(t) THEN None
            ELSE
                \* expected_collision
                Let(ParticlesCollisionNormal(
                        VZero, VZero,
                        VAdd(local_center, VMul(velocity, Unwrap(t))), velocity),
                    LAMBDA normal :
                        IF IsSome(normal) THEN Some(<<Unwrap(t), Unwrap(normal)>>)
                        ELSE None)))

\* the candidate <<time, normal>> of one edge, if any: one iteration of the
\* edge loop
EdgeCandidate(center, radius, velocity, polygon, edge_index) ==
    Let(PolygonEdge(polygon, edge_index), LAMBDA edge :
    Let(Unwrap(SegPlane(edge)), LAMBDA plane :
        \* center_depth
        IF RGe(RNeg(PlaneDistance(plane, center)), Zero) THEN None
        ELSE
            \* off_edge
            Let(FindPointVsSegmentCollision(center, velocity,
                                            Unwrap(Offseted(edge, radius))),
                LAMBDA t_opt :
                    IF IsSome(t_opt) THEN Some(<<Unwrap(t_opt), plane.normal>>)
                    ELSE None)))

\* a closure that replaces the result by every candidate offered, so that the
\* last one stays
TakeLast(found) ==
    IF found = {} THEN None
    ELSE (CHOOSE c \in found : \A o \in found : o[1] <= c[1])[2]

\* what the closure `take` leaves in `result` after the candidates were offered
\* in the order of the scan: it replaces the result only by a strictly earlier
\* one, so the earliest candidate stays and, among equal times, the first
TakeAll(found) ==
    IF found = {} THEN None
    ELSE (CHOOSE c \in found :
             \A o \in found :
                 \/ RLt(Unwrap(c[2])[1], Unwrap(o[2])[1])
                 \/ /\ Unwrap(c[2])[1] = Unwrap(o[2])[1]
                    /\ c[1] <= o[1])[2]

\* the vertex loop then the edge loop, as one scan over k = 0 .. 2n-1
FindParticleVsPolygonCollision(center, radius, velocity, polygon) ==
    TakeAll({c \in {<<k, IF k < Len(polygon)
                         THEN VertexCandidate(center, radius, velocity, polygon, k)
                         ELSE EdgeCandidate(center, radius, velocity, polygon,
                                            k - Len(polygon))>> :
                       k \in 0..(2 * Len(polygon) - 1)} :
                IsSome(c[2])})

\* an impulse that takes every collision for an elastic one
CollisionImpulseElastic(mass1, velocity1, mass2, velocity2, collision_normal, coefficient_of_restitution) ==
    RDiv(RMul(RNeg(Dot(VSub(velocity1, velocity2), collision_normal)), I(2)),
         RAdd(RDiv(One, mass1), RDiv(One, mass2)))

CollisionImpulse(mass1, velocity1, mass2, velocity2, collision_normal, coefficient_of_restitution) ==
    \* relative_velocity, approach_velocity, impulse
    RDiv(RMul(RNeg(Dot(VSub(velocity1, velocity2), collision_normal)),
              RAdd(One, coefficient_of_restitution)),
         RAdd(RDiv(One, mass1), RDiv(One, mass2)))

CollisionImpulseStationary(mass1, velocity1, collision_normal, coefficient_of_restitution) ==
    \* approach_velocity, impulse
    RMul(RMul(RNeg(Dot(velocity1, collision_normal)),
              RAdd(One, coefficient_of_restitution)),
         mass1)

\* an impulse added as if it were a velocity
ApplyImpulseUnscaled(mass, velocity, impulse) == VAdd(velocity, impulse)

ApplyImpulse(mass, velocity, impulse) == VAdd(velocity, VDiv(impulse, mass))

\* a separation that gives the impulse to the first particle only
SeparationVelocityOfFirst(velocity1, mass1, velocity2, mass2, collision_normal, coefficient_of_restitution) ==
    <<VAdd(velocity1,
           VDiv(VMul(collision_normal,
                     RDiv(RMul(RNeg(Dot(VSub(velocity1, velocity2), collision_normal)),
                               RAdd(One, coefficient_of_restitution)),
                          RAdd(RDiv(One, mass1), RDiv(One, mass2)))),
                mass1)),
      velocity2>>

ParticlesCollisionSeparationVelocity(velocity1, mass1, velocity2, mass2, collision_normal, coefficient_of_restitution) ==
    Let(CollisionImpulse(mass1, velocity1, mass2, velocity2,
                         collision_normal, coefficient_of_restitution),
        LAMBDA impulse :
            <<ApplyImpulse(mass1, velocity1, VMul(collision_normal, impulse)),
              ApplyImpulse(mass2, velocity2,
                           VMul(VNeg(collision_normal), impulse))>>)

\* math_core.rs
KineticEnergyFromVelocity(mass, velocity) ==
    RMul(RMul(Q(1, 2), mass), RMul(velocity, velocity))
VelocityFromKineticEnergy(mass, energy) ==
    Sqrt(RDiv(RMul(I(2), energy), mass))
EnergyFromTemp(temp) == RDiv(RMul(temp, I(2)), I(3))

\* `sampled_temperature` stands for the draw random_0_to_mean(wall_temperature).
\* For a moving particle with direction_opt = <<direction>>: res_v and the
\* roots solve_quadratic(a, b, c) gives for dv, none if there is no real root
WallSeparationQuadratic(velocity1, mass1, collision_normal, sampled_temperature, wall_heat_conductivity) ==
    Let(Normalized(velocity1), LAMBDA direction_opt :
        Let(KineticEnergyFromVelocity(mass1, Length(velocity1)),
            LAMBDA particle_energy :
        Let(RNeg(Dot(Unwrap(direction_opt), collision_normal)), LAMBDA angle_dot :
        \* wall_energy, sq_angle_dot
        Let(RMul(RMul(RSub(EnergyFromTemp(sampled_temperature), particle_energy),
                      RMul(angle_dot, angle_dot)),
                 wall_heat_conductivity), LAMBDA delta_e :
        \* impulse
        Let(ApplyImpulse(mass1, velocity1,
                         VMul(collision_normal,
                              CollisionImpulseStationary(mass1, velocity1,
                                                         collision_normal, One))),
            LAMBDA res_v :
        Let(VelocityFromKineticEnergy(mass1, RAdd(particle_energy, delta_e)),
            LAMBDA expected_velocity :
        \* a, b, c
            <<res_v,
              SolveQuadratic(
                Dot(collision_normal, collision_normal),
                RMul(I(2), Dot(collision_normal, res_v)),
                RSub(Dot(res_v, res_v), RMul(expected_velocity, expected_velocity)))>>
            ))))))

\* `.expect("No solution for dv")` panics
NoSolutionForDv(velocity1, mass1, collision_normal, sampled_temperature, wall_heat_conductivity) ==
    /\ IsSome(Normalized(velocity1))
    /\ ~IsSome(WallSeparationQuadratic(velocity1, mass1, collision_normal,
                                       sampled_temperature,
                                       wall_heat_conductivity)[2])

ParticlesVsWallCollisionSeparationVelocity(velocity1, mass1, collision_normal, sampled_temperature, wall_heat_conductivity) ==
    IF ~IsSome(Normalized(velocity1)) THEN velocity1
    ELSE
        Let(WallSeparationQuadratic(velocity1, mass1, collision_normal,
                                    sampled_temperature, wall_heat_conductivity),
            LAMBDA q :
        Let(Unwrap(q[2]), LAMBDA dv :
            \* final_v
            VAdd(q[1],
                 VMul(collision_normal,
                      IF RLt(RAbs(dv[1]), RAbs(dv[2])) THEN dv[1] ELSE dv[2]))))

\* the draws of random_0_to_mean(mean) the model follows: 6 uniform draws
\* from [0, 2 mean) averaged, so any value of [0, 2 mean)
SampledTemperatures(mean) ==
    {RMul(mean, f) : f \in {Zero, Q(1, 4), One}}

----------------------------------------------------------------------------
(* motion_resolver.rs.  Particles and walls are indexed from 1 here, from  *)
(* 0 in the source.                                                        *)

Particle(position, velocity, class) ==
    [position |-> position, velocity |-> velocity, class |-> class]
Wall(polygon, class) == [polygon |-> polygon, class |-> class]

OtherParticle(i) == <<"Particle", i>>
OtherWall(i) == <<"Wall", i>>

Collision(particle, other, normal, time) ==
    [particle |-> particle, other |-> other, normal |-> normal, time |-> time]

\* a collision counted as the particle's only when it is the other one
InvolvesAsOther(c, particle_index) == c.other = OtherParticle(particle_index)

InvolvesParticle(c, particle_index) ==
    c.particle = particle_index \/ c.other = OtherParticle(particle_index)

\* impl Ord for Collision: ordered by time alone
CollisionLe(c1, c2) == RLe(c1.time, c2.time)

\* a heap that pops in no order
PopAny(heap) == heap

\* a heap that pops the latest collision
PopLatest(heap) == {c \in heap : \A o \in heap : RLe(o.time, c.time)}

\* BinaryHeap<Reverse<Collision>>::pop: the collisions pop may return, the
\* least ones; which of several equal ones is the heap's business
PopCandidates(heap) == {c \in heap : \A o \in heap : CollisionLe(c, o)}

\* the range lo .. hi-1 of the source is lo+1 .. hi here
FindCollisionsWithParticles(main_index, other_indices, ps, class_map, particle_times, time_threshold) ==
    LET Candidate(i) ==
            \* p[1], p[2], pos[1], pos[2] are p1, p2, pos1, pos2
            Let(<<ps[main_index], ps[i]>>, LAMBDA p :
            Let(<<VSub(p[1].position, VMul(p[1].velocity, particle_times[main_index])),
                  VSub(p[2].position, VMul(p[2].velocity, particle_times[i]))>>,
                LAMBDA pos :
            Let(FindParticleVsParticleCollision(
                    pos[1], class_map[p[1].class].radius, p[1].velocity,
                    pos[2], class_map[p[2].class].radius, p[2].velocity),
                LAMBDA collision_time :
                    IF ~IsSome(collision_time) THEN None
                    ELSE IF GtMinusTimeEps(Unwrap(collision_time),
                                           particle_times[main_index])
                            /\ GtMinusTimeEps(Unwrap(collision_time), particle_times[i])
                            /\ RLt(Unwrap(collision_time), time_threshold)
                    THEN
                        Let(ParticlesCollisionNormal(
                                VAdd(pos[1], VMul(p[1].velocity, Unwrap(collision_time))),
                                p[1].velocity,
                                VAdd(pos[2], VMul(p[2].velocity, Unwrap(collision_time))),
                                p[2].velocity),
                            LAMBDA normal :
                                IF IsSome(normal)
                                THEN Some(Collision(main_index, OtherParticle(i),
                                                    Unwrap(normal),
                                                    Unwrap(collision_time)))
                                ELSE None)
                    ELSE None)))
    IN  {Unwrap(c) :
            c \in {Candidate(i) : i \in other_indices \ {main_index}} \ {None}}

\* find_collisions_with_walls without its filter on the time of the collision
FindCollisionsWithWallsAnyTime(particle_index, particle, particle_class, other_walls, particle_time_, time_threshold) ==
    LET Candidate(i) ==
            Let(FindParticleVsPolygonCollision(
                    VSub(particle.position, VMul(particle.velocity, particle_time_)),
                    particle_class.radius, particle.velocity,
                    other_walls[i].polygon),
                LAMBDA collision_res :
                    IF ~IsSome(collision_res) THEN None
                    ELSE Some(Collision(particle_index, OtherWall(i),
                                        Unwrap(collision_res)[2],
                                        Unwrap(collision_res)[1])))
    IN  {Unwrap(c) : c \in {Candidate(i) : i \in 1..Len(other_walls)} \ {None}}

FindCollisionsWithWalls(particle_index, particle, particle_class, other_walls, particle_time_, time_threshold) ==
    LET Candidate(i) ==
            \* pos
            Let(FindParticleVsPolygonCollision(
                    VSub(particle.position, VMul(particle.velocity, particle_time_)),
                    particle_class.radius, particle.velocity,
                    other_walls[i].polygon),
                LAMBDA collision_res :
                    IF ~IsSome(collision_res) THEN None
                    ELSE IF GtMinusTimeEps(Unwrap(collision_res)[1], particle_time_)
                            /\ RLt(Unwrap(collision_res)[1], time_threshold)
                    THEN Some(Collision(particle_index, OtherWall(i),
                                        Unwrap(collision_res)[2],
                                        Unwrap(collision_res)[1]))
                    ELSE None)
    IN  {Unwrap(c) : c \in {Candidate(i) : i \in 1..Len(other_walls)} \ {None}}

\* a resolution that builds its two particles anew, of the first class
ResolveParticleVsParticleAsNew(particle1, particle2, particle1_t, particle2_t, collision_t, collision_normal, class_map) ==
    <<Particle(particle1.position, particle2.velocity, 1),
      Particle(particle2.position, particle1.velocity, 1)>>

\* a resolution that advances both particles by the clock of the first
ResolveParticleVsParticleOneClock(particle1, particle2, particle1_t, particle2_t, collision_t, collision_normal, class_map) ==
    Let(<<[particle1 EXCEPT !.position =
              VAdd(@, VMul(particle1.velocity, RSub(collision_t, particle1_t)))],
          [particle2 EXCEPT !.position =
              VAdd(@, VMul(particle2.velocity, RSub(collision_t, particle1_t)))]>>,
        LAMBDA moved :
    Let(ParticlesCollisionSeparationVelocity(
            moved[1].velocity, class_map[moved[1].class].mass,
            moved[2].velocity, class_map[moved[2].class].mass,
            collision_normal, One),
        LAMBDA new_velocity :
            <<[moved[1] EXCEPT !.velocity = new_velocity[1]],
              [moved[2] EXCEPT !.velocity = new_velocity[2]]>>))

\* moved[1], moved[2] are particle1, particle2 advanced to the moment of
\* collision; the resolver is default_particle_vs_particle_velocity_resovler
ResolveParticleVsParticle(particle1, particle2, particle1_t, particle2_t, collision_t, collision_normal, class_map) ==
    Let(<<[particle1 EXCEPT !.position =
              VAdd(@, VMul(particle1.velocity, RSub(collision_t, particle1_t)))],
          [particle2 EXCEPT !.position =
              VAdd(@, VMul(particle2.velocity, RSub(collision_t, particle2_t)))]>>,
        LAMBDA moved :
    Let(ParticlesCollisionSeparationVelocity(
            moved[1].velocity, class_map[moved[1].class].mass,
            moved[2].velocity, class_map[moved[2].class].mass,
            collision_normal, One),
        LAMBDA new_velocity :
            <<[moved[1] EXCEPT !.velocity = new_velocity[1]],
              [moved[2] EXCEPT !.velocity = new_velocity[2]]>>))

\* moved is particle1 advanced to the moment of collision; the resolver is
\* default_particle_vs_wall_velocity_resolver
ResolveParticleVsWall(particle1, wall_class, particle1_t, collision_t, collision_normal, class_map, sampled_temperature) ==
    Let([particle1 EXCEPT !.position =
            VAdd(@, VMul(particle1.velocity, RSub(collision_t, particle1_t)))],
        LAMBDA moved :
            [moved EXCEPT !.velocity =
                ParticlesVsWallCollisionSeparationVelocity(
                    moved.velocity, class_map[moved.class].mass,
                    collision_normal, sampled_temperature,
                    wall_class.heat_conductivity)])

\* find_particle_vs_polygon_collision panics for a polygon with a degenerate
\* edge: its loop over the vertices calls is_point_outside_corner, which takes
\* the planes of both edges at the vertex with `expect`; the initial search
\* runs it for every particle against every wall
WallSearchPanics(ps, sc) ==
    /\ ps # <<>>
    /\ \E w \in 1..Len(sc.walls) : HasDegenerateEdge(sc.walls[w].polygon)

\* "Generate collisions for each vs each"
InitialCollisions(ps, sc, times, time_threshold) ==
    UNION {FindCollisionsWithParticles(i, (i + 1)..Len(ps), ps,
                                       sc.particle_classes, times, time_threshold)
           \cup FindCollisionsWithWalls(i, ps[i], sc.particle_classes[ps[i].class],
                                        sc.walls, times[i], time_threshold)
           : i \in 1..Len(ps)}

\* "Delete all collisions of involved partciles"
Retain(heap, to_reset) ==
    {c \in heap : \A particle_idx \in to_reset : ~InvolvesParticle(c, particle_idx)}

\* new collisions searched, as at the start of resolve, only among the
\* particles in front of the involved one
NewCollisionsInFront(ps, sc, times, time_threshold, to_reset) ==
    UNION {FindCollisionsWithParticles(particle_idx, (particle_idx + 1)..Len(ps), ps,
                                       sc.particle_classes, times, time_threshold)
           \cup FindCollisionsWithWalls(particle_idx, ps[particle_idx],
                                        sc.particle_classes[ps[particle_idx].class],
                                        sc.walls, times[particle_idx], time_threshold)
           : particle_idx \in to_reset}

\* "Generate new collisions for each involved particle"
NewCollisions(ps, sc, times, time_threshold, to_reset) ==
    UNION {FindCollisionsWithParticles(particle_idx, 1..Len(ps), ps,
                                       sc.particle_classes, times, time_threshold)
           \cup FindCollisionsWithWalls(particle_idx, ps[particle_idx],
                                        sc.particle_classes[ps[particle_idx].class],
                                        sc.walls, times[particle_idx], time_threshold)
           : particle_idx \in to_reset}

\* the particles the popped collision touches
Participants(c) ==
    IF c.other[1] = "Particle" THEN {c.particle, c.other[2]} ELSE {c.particle}

\* one iteration of `while let Some(Reverse(collision)) = current_collisions.pop()`
\* on the state st = [particles, particle_time, current_collisions], having
\* popped `collision`: the participants are resolved at the time of the
\* collision, ...
Resolved(st, sc, collision, sampled_temperature) ==
    IF collision.other[1] = "Particle"
    THEN Let(ResolveParticleVsParticle(
                 st.particles[collision.particle],
                 st.particles[collision.other[2]],
                 st.particle_time[collision.particle],
                 st.particle_time[collision.other[2]],
                 collision.time, collision.normal, sc.particle_classes),
             LAMBDA r :
                 [st.particles EXCEPT ![collision.particle] = r[1],
                                      ![collision.other[2]] = r[2]])
    ELSE [st.particles EXCEPT ![collision.particle] =
              ResolveParticleVsWall(
                  st.particles[collision.particle],
                  sc.wall_classes[sc.walls[collision.other[2]].class],
                  st.particle_time[collision.particle],
                  collision.time, collision.normal,
                  sc.particle_classes, sampled_temperature)]

\* the time of the collision given to every particle
ResolvedTimesAll(st, collision) ==
    [i \in 1..Len(st.particles) |-> collision.time]

\* the time of the collision given to no particle
ResolvedTimesKept(st, collision) == st.particle_time

\* ... their times become the time of the collision, ...
ResolvedTimes(st, collision) ==
    [i \in 1..Len(st.particles) |->
        IF i \in Participants(collision) THEN collision.time
        ELSE st.particle_time[i]]

\* ... and their collisions are deleted and generated anew
Iteration(st, sc, time_threshold, collision, sampled_temperature) ==
    Let(<<Resolved(st, sc, collision, sampled_temperature),
          ResolvedTimes(st, collision)>>, LAMBDA now :
        [particles |-> now[1],
         particle_time |-> now[2],
         current_collisions |->
             Retain(st.current_collisions \ {collision}, Participants(collision))
                 \cup NewCollisions(now[1], sc, now[2], time_threshold,
                                    Participants(collision))])

\* every particle advanced by the whole timestep
AdvanceByTimestep(ps, times, time_threshold) ==
    [i \in 1..Len(ps) |->
        [ps[i] EXCEPT !.position = VAdd(@, VMul(ps[i].velocity, time_threshold))]]

\* "When there are no more collisions left - just advance all particles to the end"
AdvanceToEnd(ps, times, time_threshold) ==
    [i \in 1..Len(ps) |->
        [ps[i] EXCEPT !.position =
            VAdd(@, VMul(ps[i].velocity, RSub(time_threshold, times[i])))]]

----------------------------------------------------------------------------
(* The scenes the driver hands to resolve.                                 *)

\* bounds of the scenes
MaxSpeed == 2
CorridorWidth == 6
MaxBudget == 4

\* ParticleClass::new(name, mass, radius), as in test_resolve, a heavy class
\* and a class of small particles (radius 2^-12)
ParticleClasses ==
    (1 :> [mass |-> I(1), radius |-> I(1)])
        @@ (2 :> [mass |-> I(1), radius |-> I(2)])
        @@ (3 :> [mass |-> I(3), radius |-> I(1)])
        @@ (4 :> [mass |-> I(1), radius |-> Q(1, 4096)])

\* class 1 trades no energy (an elastic wall); class 2 is a heat bath
WallClasses ==
    (1 :> [temperature |-> I(1), heat_conductivity |-> Zero])
        @@ (2 :> [temperature |-> I(3), heat_conductivity |-> One])

MakeScene(walls) ==
    [walls |-> walls, particle_classes |-> ParticleClasses,
     wall_classes |-> WallClasses]

\* two facing walls, the free gap between them is 0 < x < width
CorridorWalls(width, wall_class) ==
    <<Wall(NewRectangle(-2, -3, 0, 3), wall_class),
      Wall(NewRectangle(width, -3, width + 1, 3), wall_class)>>

Speeds == (-MaxSpeed)..MaxSpeed

\* particles of radius 1 on the axis of the corridor, not overlapping each
\* other or a wall (touching is allowed): one particle of class 1, or two,
\* the first of class 1 or 3
SingleParticle(width) ==
    {<<Particle(V(x1, 0), V(v1, 0), 1)>> : x1 \in 1..(width - 1), v1 \in Speeds}

ParticlePairs(width) ==
    {<<Particle(V(x1, 0), V(v1, 0), c1), Particle(V(x2, 0), V(v2, 0), 1)>> :
        x1 \in 1..(width - 3), x2 \in 3..(width - 1),
        v1 \in Speeds, v2 \in {-1, 0}, c1 \in {1, 3}}

NoOverlapOnAxis(ps) ==
    \A i \in 1..Len(ps) : \A j \in 1..Len(ps) :
        i < j => RGe(RSub(ps[j].position.x, ps[i].position.x), I(2))

CorridorScene(width, wall_class, ps) ==
    [scene |-> MakeScene(CorridorWalls(width, wall_class)), particles |-> ps,
     budget |-> I(MaxBudget)]

\* a corridor that one particle exactly fills and a wide one, with elastic
\* walls or heat baths; two particles in the wide one with elastic walls
CorridorScenes ==
    UNION {{CorridorScene(w, wc, ps) : ps \in SingleParticle(w)} :
              w \in {2, CorridorWidth}, wc \in {1, 2}}
    \cup {CorridorScene(CorridorWidth, 1, ps) :
              ps \in {q \in ParticlePairs(CorridorWidth) : NoOverlapOnAxis(q)}}

\* an L-shaped (concave) wall: a base 0 <= x <= 20, -4 <= y <= 0 and an arm
\* 0 <= x <= 4, 0 <= y <= 2, counter-clockwise
LShape == <<V(0, -4), V(20, -4), V(20, 0), V(4, 0), V(4, 2), V(0, 2)>>

\* a particle of radius 1 above the base and to the right of the arm,
\* touching neither, that falls on the base
LScenes ==
    {[scene |-> MakeScene(<<Wall(LShape, 1)>>),
      particles |-> <<Particle(Vec2(I(x), Q(9, 4)), v, 1)>>, budget |-> b] :
        x \in {5, 6, 8}, v \in {V(12, -5), V(4, -3), V(0, -3), V(0, -1)},
        b \in {Q(1, 2), I(1)}}

\* the scene of test_resolve
TestResolveScene ==
    [scene |-> MakeScene(<<>>),
     particles |-> <<Particle(V(10, 0), V(0, 0), 1),
                     Particle(V(0, 0), V(1, 0), 2),
                     Particle(V(14, 0), V(0, 0), 1),
                     Particle(V(14, -15), V(0, 1), 1),
                     Particle(V(-8, 5), V(1, 0), 1),
                     Particle(V(20, 20), V(1, 1), 2),
                     Particle(V(12, 12), V(0, -1), 1)>>,
     budget |-> I(30)]

\* a corridor narrower than the particle in it by 2^-15: the particle
\* touches the left wall and overlaps the right one by that much, which at
\* its speed of 64 is 2^-21 (4.8e-7) of time
TightCorridorScene ==
    [scene |-> MakeScene(<<Wall(<<Vec2(Q(-1, 4), Q(-1, 4)), Vec2(Zero, Q(-1, 4)),
                                  Vec2(Zero, Q(1, 4)), Vec2(Q(-1, 4), Q(1, 4))>>, 1),
                           Wall(<<Vec2(Q(65535, 32768), Q(-1, 4)),
                                  Vec2(Q(73727, 32768), Q(-1, 4)),
                                  Vec2(Q(73727, 32768), Q(1, 4)),
                                  Vec2(Q(65535, 32768), Q(1, 4))>>, 1)>>),
     particles |-> <<Particle(V(1, 0), V(-64, 0), 1)>>,
     budget |-> I(1)]

\* a wall whose corner (20,0) is given twice, a particle above it
DegenerateWallScene ==
    [scene |-> MakeScene(<<Wall(<<V(0, -4), V(20, -4), V(20, 0), V(20, 0),
                                  V(0, 0)>>, 1)>>),
     particles |-> <<Particle(V(5, 2), V(0, -1), 1)>>,
     budget |-> I(2)]

\* two small particles, the first at speed 2048 head-on to the second, which
\* is at rest 1 away: while they overlap the first moves by their two radii,
\* 2^-11, which takes it 2^-21 (4.8e-7) of time, less than TIME_SEC_EPS
FastPairScene ==
    [scene |-> MakeScene(<<>>),
     particles |-> <<Particle(Vec2(Q(-2049, 2048), Zero), V(2048, 0), 4),
                     Particle(V(0, 0), V(0, 0), 4)>>,
     budget |-> I(1)]

\* a step of no duration (Duration::ZERO given to Integrator::step): a
\* particle on its way to another
ZeroStepScene ==
    [scene |-> MakeScene(<<>>),
     particles |-> <<Particle(V(0, 0), V(1, 0), 1), Particle(V(4, 0), V(0, 0), 1)>>,
     budget |-> Zero]

Scenes ==
    CorridorScenes \cup LScenes
        \cup {TestResolveScene, TightCorridorScene, DegenerateWallScene,
               FastPairScene, ZeroStepScene}

\* iterations of the loop followed within one call
MaxIterations == 10

\* test_resolve_long: the driver simulates the duration in a single call on
\* one copy of the particles, then in `steps` equal calls on a second copy
Steps == 2
StepSchedule(d) == [k \in 1..Steps |-> RDiv(d, I(Steps))]

----------------------------------------------------------------------------
(* The state machine: the driver calls resolve once per budget of the      *)
(* schedule; inside a call every iteration of the while loop is one step.  *)

Snapshot == [particles |-> particles, particle_time |-> particle_time,
             current_collisions |-> current_collisions]

\* times that the call before has left behind
StaleTimes(ps) ==
    IF Len(particle_time) = Len(ps) THEN particle_time
    ELSE [i \in 1..Len(ps) |-> Zero]

\* `vec![0.0; particles.len()]`
ZeroTimes(ps) == [i \in 1..Len(ps) |-> Zero]

\* the driver is about to make its single call on the scene s
InitScene(s) ==
    /\ scene = s.scene
    /\ particles = s.particles
    /\ initial = s.particles
    /\ at_call = s.particles
    /\ duration = s.budget
    /\ schedule = <<s.budget>>
    /\ particles1 = None
    /\ repeated = FALSE
    /\ timestep = Zero
    /\ particle_time = [i \in 1..Len(s.particles) |-> Zero]
    /\ current_collisions = {}
    /\ pc = "idle"
    /\ popped = None
    /\ touched = {}
    /\ seen = {}
    /\ resolved_times = <<>>
    /\ prev = [particles |-> s.particles,
               particle_time |-> [i \in 1..Len(s.particles) |-> Zero],
               current_collisions |-> {}]

\* Simulation::new with empty class tables
NoSimulation ==
    /\ sim = [particle_classes |-> <<>>, wall_classes |-> <<>>,
              particles |-> <<>>, walls |-> <<>>]
    /\ sim_pc = "live"

NoCall ==
    /\ call = None
    /\ returned = None

\* PlaybackControl::new
NewPlayback == [is_playing |-> FALSE, rewind |-> None, current_time |-> 0]

NoPlayback ==
    /\ playback = NewPlayback
    /\ stepped = None

\* FramesTimeline::new on a channel nothing was sent on
NoTimeline ==
    /\ frames = <<>>
    /\ frames_rx = <<>>
    /\ sent = <<>>
    /\ poll = None
    /\ looked = None

\* main before the frame thread is spawned
NoRunner == runner = [thread |-> "none"]

Init ==
    /\ \E s \in Scenes : InitScene(s)
    /\ NoSimulation
    /\ NoCall
    /\ NoPlayback
    /\ NoTimeline
    /\ NoRunner

\* resolve is entered: times are zeroed and the heap is filled
BeginResolve ==
    /\ pc = "idle"
    /\ schedule # <<>>
    /\ ~WallSearchPanics(particles, scene)
    /\ timestep' = Head(schedule)
    /\ particle_time' = ZeroTimes(particles)
    /\ current_collisions' =
           InitialCollisions(particles, scene, particle_time', timestep')
    /\ at_call' = particles
    /\ popped' = None
    /\ touched' = {}
    /\ seen' = {}
    /\ resolved_times' = <<>>
    /\ prev' = [particles |-> particles, particle_time |-> particle_time',
                current_collisions |-> current_collisions']
    /\ pc' = "loop"
    /\ UNCHANGED <<particles, schedule, duration, particles1, scene, initial>>
    /\ UNCHANGED <<repeated, sim_vars, call_vars, front_vars>>

\* resolve is entered and the search for the initial collisions panics: the
\* call never returns
ResolvePanics ==
    /\ pc = "idle"
    /\ schedule # <<>>
    /\ WallSearchPanics(particles, scene)
    /\ pc' = "panicked"
    /\ UNCHANGED <<particles, particle_time, current_collisions, timestep,
                   schedule, duration, particles1, scene, initial, at_call,
                   popped, touched, seen, resolved_times, prev>>
    /\ UNCHANGED <<repeated, sim_vars, call_vars, front_vars>>

\* the state after an iteration of the loop that popped `collision`
Step(collision, next) ==
    /\ particles' = next.particles
    /\ particle_time' = next.particle_time
    /\ current_collisions' = next.current_collisions
    /\ popped' = Some(collision)
    /\ touched' = touched \cup Participants(collision)
    /\ seen' = seen \cup {Snapshot}
    /\ resolved_times' = Append(resolved_times, collision.time)
    /\ prev' = Snapshot
    /\ UNCHANGED <<timestep, pc, schedule, duration, particles1, scene, initial,
                   at_call>>
    /\ UNCHANGED <<repeated, sim_vars, call_vars, front_vars>>

\* an iteration that pops a particle-particle collision
ResolveParticleCollision ==
    /\ pc = "loop"
    /\ Len(resolved_times) < MaxIterations
    /\ \E collision \in PopCandidates(current_collisions) :
        /\ collision.other[1] = "Particle"
        /\ Step(collision, Iteration(Snapshot, scene, timestep, collision, Zero))

\* an iteration that pops a particle-wall collision
ResolveWallCollision ==
    /\ pc = "loop"
    /\ Len(resolved_times) < MaxIterations
    /\ \E collision \in PopCandidates(current_collisions) :
        /\ collision.other[1] = "Wall"
        /\ \E sampled_temperature \in SampledTemperatures(
                scene.wall_classes[scene.walls[collision.other[2]].class].temperature) :
            Step(collision, Iteration(Snapshot, scene, timestep, collision,
                                      sampled_temperature))

\* the heap is empty: the particles are advanced to the end and resolve returns
Finish ==
    /\ pc = "loop"
    /\ current_collisions = {}
    /\ particles' = AdvanceToEnd(particles, particle_time, timestep)
    /\ schedule' = Tail(schedule)
    /\ pc' = "idle"
    /\ UNCHANGED <<particle_time, current_collisions, timestep, duration,
                   particles1, scene, initial, at_call, popped, touched, seen,
                   resolved_times, prev>>
    /\ UNCHANGED <<repeated, sim_vars, call_vars, front_vars>>

\* the single call has returned: its outcome is kept and the second copy of
\* the particles is simulated in steps
BeginSteps ==
    /\ pc = "idle"
    /\ schedule = <<>>
    /\ particles1 = None
    /\ particles1' = Some(particles)
    /\ particles' = initial
    /\ schedule' = StepSchedule(duration)
    /\ popped' = None
    /\ touched' = {}
    /\ UNCHANGED <<particle_time, current_collisions, timestep, pc, duration,
                   scene, initial, at_call, seen, resolved_times, prev>>
    /\ UNCHANGED <<repeated, sim_vars, call_vars, front_vars>>

\* the calls in steps have returned: the single call is made once more on
\* the same particles
BeginRepeat ==
    /\ pc = "idle"
    /\ schedule = <<>>
    /\ IsSome(particles1)
    /\ ~repeated
    /\ repeated' = TRUE
    /\ particles' = initial
    /\ schedule' = <<duration>>
    /\ popped' = None
    /\ touched' = {}
    /\ UNCHANGED <<particle_time, current_collisions, timestep, pc, duration,
                   particles1, scene, initial, at_call, seen, resolved_times,
                   prev>>
    /\ UNCHANGED <<sim_vars, call_vars, front_vars>>

Next ==
    \/ BeginResolve
    \/ ResolvePanics
    \/ ResolveParticleCollision
    \/ ResolveWallCollision
    \/ Finish
    \/ BeginSteps
    \/ BeginRepeat

Spec == Init /\ [][Next]_vars

\* the loop of resolve has no suspension point: an iteration that can run, runs
FairSpec == Spec /\ WF_vars(Next)

----------------------------------------------------------------------------
(* simulation_spec.rs, simulation.rs: a Simulation is built from class     *)
(* tables, objects are spawned into it and its particles are lent out      *)

\* ParticleClass::new(name, mass, radius): the fields are stored as given
NewParticleClass(mass, radius) == [mass |-> mass, radius |-> radius]

\* the classes a specification may give: mass and radius are any numbers
SpecClasses ==
    {NewParticleClass(One, One), NewParticleClass(I(-1), One),
     NewParticleClass(One, Zero)}

\* the class ids of the tables; objects may name one id more
MaxClassId == 2
TableIds == 1..MaxClassId
ObjectIds == 1..(MaxClassId + 1)

\* particles and walls stored at most
MaxStored == 2

SimParticles == {Particle(VZero, V(1, 0), id) : id \in ObjectIds}
SimWalls == {Wall(NewRectangle(0, 0, 1, 1), id) : id \in ObjectIds}

\* the sequences over S of the lengths 0..n
SeqsUpTo(S, n) == UNION {[1..k -> S] : k \in 0..n}

\* SimulationSpec::build has its empty class maps
SimInit ==
    /\ InitScene(TestResolveScene)
    /\ NoCall
    /\ NoPlayback
    /\ NoTimeline
    /\ NoRunner
    /\ sim = [particle_classes |-> <<>>, wall_classes |-> <<>>,
              particles |-> <<>>, walls |-> <<>>]
    /\ sim_pc = "building"

\* build: `p_classes.insert(class.id, ParticleClass::new(..))`
InsertParticleClass ==
    /\ sim_pc = "building"
    /\ \E id \in TableIds \ DOMAIN sim.particle_classes :
       \E class \in SpecClasses :
           sim' = [sim EXCEPT !.particle_classes = @ @@ (id :> class)]
    /\ UNCHANGED <<sim_pc, resolve_vars, call_vars, front_vars>>

\* build: `w_classes.insert(class.id, WallClass::new(..))`
InsertWallClass ==
    /\ sim_pc = "building"
    /\ \E id \in {1} \ DOMAIN sim.wall_classes :
           sim' = [sim EXCEPT !.wall_classes =
                       @ @@ (id :> [coefficient_of_restitution |-> One])]
    /\ UNCHANGED <<sim_pc, resolve_vars, call_vars, front_vars>>

\* Simulation::new(p_classes, w_classes)
SimulationNew ==
    /\ sim_pc = "building"
    /\ sim_pc' = "live"
    /\ UNCHANGED <<sim, resolve_vars, call_vars, front_vars>>

\* the outcome of a spawn_*: the assert! on the class ids, then the push
Spawned(known, field, objects) ==
    IF \A k \in 1..Len(objects) : objects[k].class \in known
    THEN /\ sim' = [sim EXCEPT ![field] = @ \o objects]
         /\ sim_pc' = sim_pc
    ELSE /\ sim_pc' = "panicked"
         /\ sim' = sim

SpawnParticle ==
    /\ sim_pc = "live"
    /\ Len(sim.particles) < MaxStored
    /\ \E particle \in SimParticles :
           Spawned(DOMAIN sim.particle_classes, "particles", <<particle>>)
    /\ UNCHANGED <<resolve_vars, call_vars, front_vars>>

SpawnParticles ==
    /\ sim_pc = "live"
    /\ \E ps \in SeqsUpTo(SimParticles, MaxStored - Len(sim.particles)) :
           Spawned(DOMAIN sim.particle_classes, "particles", ps)
    /\ UNCHANGED <<resolve_vars, call_vars, front_vars>>

SpawnWall ==
    /\ sim_pc = "live"
    /\ Len(sim.walls) < MaxStored
    /\ \E wall \in SimWalls :
           Spawned(DOMAIN sim.wall_classes, "walls", <<wall>>)
    /\ UNCHANGED <<resolve_vars, call_vars, front_vars>>

SpawnWalls ==
    /\ sim_pc = "live"
    /\ \E ws \in SeqsUpTo(SimWalls, MaxStored - Len(sim.walls)) :
           Spawned(DOMAIN sim.wall_classes, "walls", ws)
    /\ UNCHANGED <<resolve_vars, call_vars, front_vars>>

\* particles_mut lends `&mut [Particle]`: the borrower may write any element
\* with any particle, Particle::new being public; the length is fixed
ParticlesMut ==
    /\ sim_pc = "live"
    /\ \E i \in 1..Len(sim.particles), particle \in SimParticles :
           sim' = [sim EXCEPT !.particles[i] = particle]
    /\ UNCHANGED <<sim_pc, resolve_vars, call_vars, front_vars>>

SimNext ==
    \/ InsertParticleClass
    \/ InsertWallClass
    \/ SimulationNew
    \/ SpawnParticle
    \/ SpawnParticles
    \/ SpawnWall
    \/ SpawnWalls
    \/ ParticlesMut

SimSpec == SimInit /\ [][SimNext]_vars

----------------------------------------------------------------------------
(* collision_utils.rs: the two separation functions called on their own    *)

UnitNormals == {V(1, 0), V(0, 1), Vec2(Q(3, 5), Q(4, 5)), Vec2(Q(-4, 5), Q(3, 5))}
CallMasses == {One, I(2), I(3)}
CallVelocities == {V(x, y) : x \in -1..1, y \in {-2, 0, 1}}
Restitutions == {Zero, Q(1, 2), One}

ParticleCalls ==
    {[fn |-> "particles", velocity1 |-> v1, mass1 |-> m1, velocity2 |-> v2,
      mass2 |-> m2, collision_normal |-> n, coefficient_of_restitution |-> e] :
        v1 \in CallVelocities, v2 \in {VZero, V(1, -1)}, m1 \in CallMasses,
        m2 \in CallMasses, n \in UnitNormals, e \in Restitutions}

\* a particle at rest, two that meet the wall head-on or at an angle whose
\* speed is an exact number, and one whose speed is not
WallCallVelocities == {VZero, V(0, -1), V(3, -4), V(2, -3)}

WallCalls ==
    {[fn |-> "wall", velocity1 |-> v1, mass1 |-> m1, collision_normal |-> V(0, 1),
      wall_temperature |-> t, wall_heat_conductivity |-> h] :
        v1 \in WallCallVelocities, m1 \in {One, I(2)}, t \in {Zero, I(3)},
        h \in Restitutions}

\* what `returned` holds after a panic of the call, and the test for it
CallPanic == <<"panic", "No solution for dv">>
CallPanicked == Len(returned) = 2

\* circles around the origin and off it, at rest, departing, approaching,
\* overlapping, missing and grazing (the cases of
\* test_find_circles_vs_origin_collision among them)
OriginCenters ==
    {V(x, y) : x \in {-2, 0, 1, 3}, y \in {-5, 0, 2}}
        \cup {Vec2(Q(1, 2), Zero), Vec2(Q(4, 5), Zero)}
OriginRadii == {Q(1, 2), One, I(2)}
OriginVelocities == {VZero, V(0, 2), V(0, -2), V(-2, 0), V(1, 0), V(1, 1)}

OriginCalls ==
    {[fn |-> "origin", center1 |-> c, radius1 |-> r, velocity1 |-> v] :
        c \in OriginCenters, r \in OriginRadii, v \in OriginVelocities}

\* the rectangle of test_find_particle_vs_polygon_edge_collision and
\* particles above, inside, below and beside it
CallPolygon == NewRectangle(1, 1, 4, 3)
PolygonCenters ==
    {Vec2(x, y) : x \in {I(2), I(3)},
                  y \in {I(6), Q(7, 2), Q(31, 10), Q(299, 100), I(2),
                         Q(1, 10), Q(-1, 5), Q(-11, 5)}}
        \cup {Vec2(Q(9, 2), y) : y \in {I(6), Q(7, 2), I(2), Q(-11, 5)}}
PolygonRadii == {Q(1, 2), One}
PolygonVelocities == {V(0, -2), V(0, 2), V(-2, 0), V(-1, -2)}

PolygonCalls ==
    {[fn |-> "polygon", center |-> c, radius |-> r, velocity |-> v,
      polygon |-> CallPolygon] :
        c \in PolygonCenters, r \in PolygonRadii, v \in PolygonVelocities}

\* the cases of test_particles_collision_normal and pairs whose centres or
\* velocities differ along an axis or along a 3-4-5 direction
NormalCenters == {V(1, 1), V(2, 2), V(4, 5), V(1, -2)}
NormalVelocities == {V(1, 0), V(0, 2), V(4, 4), V(-2, 0)}

NormalCalls ==
    {[fn |-> f, center1 |-> c1, velocity1 |-> v1, center2 |-> c2, velocity2 |-> v2] :
        f \in {"normal", "pair"}, c1 \in {V(1, 1)}, c2 \in NormalCenters,
        v1 \in NormalVelocities, v2 \in NormalVelocities}

\* the L shape of test_point_outside_polygon_corner, closed at (0, 2), with
\* points around its corners, the test's among them, and points on the lines
\* of its edges
CornerPolygon == <<V(0, 0), V(3, 0), V(3, 1), V(2, 1), V(2, 2), V(0, 2)>>
CornerPoints ==
    {Vec2(x, y) : x \in {Q(19, 10), I(2), Q(21, 10), Q(22, 10), Q(29, 10), I(3),
                         Q(31, 10)},
                  y \in {Q(-1, 10), Zero, Q(1, 10), Q(9, 10), One, Q(11, 10),
                         Q(12, 10)}}

CornerCalls ==
    {[fn |-> "corner", polygon |-> CornerPolygon, vertex_index |-> k, point |-> q] :
        k \in 0..(Len(CornerPolygon) - 1), q \in CornerPoints}

\* the window of the scheduler when it is called on a pair on its own
PairTimeThreshold == I(4)

CallInit ==
    /\ InitScene(TestResolveScene)
    /\ NoSimulation
    /\ NoPlayback
    /\ NoTimeline
    /\ NoRunner
    /\ call \in ParticleCalls \cup WallCalls \cup OriginCalls \cup PolygonCalls
                 \cup NormalCalls \cup CornerCalls
    /\ returned = None

\* particles_collision_separation_velocity is called and returns
CallParticlesSeparation ==
    /\ call.fn = "particles"
    /\ returned = None
    /\ returned' = Some(ParticlesCollisionSeparationVelocity(
                            call.velocity1, call.mass1, call.velocity2,
                            call.mass2, call.collision_normal,
                            call.coefficient_of_restitution))
    /\ UNCHANGED <<call, resolve_vars, sim_vars, front_vars>>

\* particles_vs_wall_collision_separation_velocity is called and returns
\* or panics
CallWallSeparation ==
    /\ call.fn = "wall"
    /\ returned = None
    /\ \E sampled_temperature \in SampledTemperatures(call.wall_temperature) :
           returned' =
               IF NoSolutionForDv(call.velocity1, call.mass1,
                                  call.collision_normal, sampled_temperature,
                                  call.wall_heat_conductivity)
               THEN CallPanic
               ELSE Some(ParticlesVsWallCollisionSeparationVelocity(
                             call.velocity1, call.mass1, call.collision_normal,
                             sampled_temperature, call.wall_heat_conductivity))
    /\ UNCHANGED <<call, resolve_vars, sim_vars, front_vars>>

\* find_circle_vs_origin_collision is called and returns
CallCircleVsOrigin ==
    /\ call.fn = "origin"
    /\ returned = None
    /\ returned' = Some(FindCircleVsOriginCollision(
                            call.center1, call.radius1, call.velocity1))
    /\ UNCHANGED <<call, resolve_vars, sim_vars, front_vars>>

\* find_particle_vs_polygon_collision is called and returns
CallParticleVsPolygon ==
    /\ call.fn = "polygon"
    /\ returned = None
    /\ returned' = Some(FindParticleVsPolygonCollision(
                            call.center, call.radius, call.velocity,
                            call.polygon))
    /\ UNCHANGED <<call, resolve_vars, sim_vars, front_vars>>

\* particles_collision_normal is called and returns
CallParticlesCollisionNormal ==
    /\ call.fn = "normal"
    /\ returned = None
    /\ returned' = Some(ParticlesCollisionNormal(
                            call.center1, call.velocity1, call.center2,
                            call.velocity2))
    /\ UNCHANGED <<call, resolve_vars, sim_vars, front_vars>>

\* find_collisions_with_particles is called for the first of two particles
\* that have not been advanced, and returns
CallFindCollisionsWithParticles ==
    /\ call.fn = "pair"
    /\ returned = None
    /\ returned' = Some(FindCollisionsWithParticles(
                            1, {2},
                            <<Particle(call.center1, call.velocity1, 1),
                              Particle(call.center2, call.velocity2, 1)>>,
                            ParticleClasses, <<Zero, Zero>>, PairTimeThreshold))
    /\ UNCHANGED <<call, resolve_vars, sim_vars, front_vars>>

\* Polygon::is_point_outside_corner is called and returns
CallIsPointOutsideCorner ==
    /\ call.fn = "corner"
    /\ returned = None
    /\ returned' = Some(IsPointOutsideCorner(call.polygon, call.vertex_index,
                                             call.point))
    /\ UNCHANGED <<call, resolve_vars, sim_vars, front_vars>>

CallNext ==
    \/ CallParticlesSeparation
    \/ CallWallSeparation
    \/ CallCircleVsOrigin
    \/ CallParticleVsPolygon
    \/ CallParticlesCollisionNormal
    \/ CallFindCollisionsWithParticles
    \/ CallIsPointOutsideCorner

CallSpec == CallInit /\ [][CallNext]_vars

----------------------------------------------------------------------------
(* m_front, components/playback_control.rs: a Duration is a whole number   *)
(* of time units here, a rewind factor a whole number                      *)

\* durations given to step and _seek
MaxTime == 3
Durations == 0..MaxTime

\* Duration::MAX, the longest time a Duration holds, and the time steps given
\* to step: the durations above and the longest one
DurationMax == 16
TimeSteps == Durations \cup {DurationMax}

\* read_user_input sets 2.0 and -2.0, test_step 1.0 as well
RewindFactors == {-2, 1, 2}

\* std::cmp::min and max of two durations
Min(a, b) == IF b < a THEN b ELSE a
Max(a, b) == IF b < a THEN a ELSE b

\* Duration::saturating_sub
SaturatingSub(a, b) == IF b > a THEN 0 ELSE a - b

\* Duration::mul_f64 by a whole, non-negative factor
MulF64(rhs, factor) == rhs * factor

\* Duration::mul_f64 and Duration's += panic when the result is longer than
\* Duration::MAX
MulF64Overflows(rhs, factor) == rhs * factor > DurationMax
AddOverflows(a, b) == a + b > DurationMax

\* a speed that takes the control for one that plays
MultPlaying(p) == IF IsSome(p.rewind) THEN Unwrap(p.rewind) ELSE 1

\* step: `mult`, "the update speed and direction"
Mult(p) ==
    IF IsSome(p.rewind) THEN Unwrap(p.rewind)
    ELSE IF p.is_playing THEN 1 ELSE 0

\* step: `effective_end`
EffectiveEnd(soft_end, hard_end) == Min(soft_end, hard_end)

\* a stop at whatever time was reached
StopAnywhere(current_time, hard_end) == TRUE

\* step: `stop`
Stop(current_time, hard_end) == current_time >= hard_end

\* step: current_time after the move by time_step * mult, before the clamp
Moved(p, time_step) ==
    IF Mult(p) < 0
    THEN SaturatingSub(p.current_time, MulF64(time_step, -Mult(p)))
    ELSE IF Mult(p) > 0 THEN p.current_time + MulF64(time_step, Mult(p))
    ELSE p.current_time

\* step panics in the move
StepPanics(p, time_step) ==
    IF Mult(p) < 0 THEN MulF64Overflows(time_step, -Mult(p))
    ELSE IF Mult(p) > 0
    THEN MulF64Overflows(time_step, Mult(p))
            \/ AddOverflows(p.current_time, MulF64(time_step, Mult(p)))
    ELSE FALSE

\* what `stepped` holds after a panic of step, and the test for it
StepPanic(s) == <<"panic", s>>
StepPanicked == Len(stepped) = 2
StepReturned == Len(stepped) = 1

\* the control after PlaybackControl::step
AfterStep(p, time_step, soft_end, hard_end) ==
    Let(Min(Moved(p, time_step), EffectiveEnd(soft_end, hard_end)),
        LAMBDA current_time :
            [p EXCEPT !.current_time = current_time,
                      !.is_playing = IF Stop(current_time, hard_end) THEN FALSE
                                     ELSE @])

PlaybackInit ==
    /\ InitScene(TestResolveScene)
    /\ NoSimulation
    /\ NoCall
    /\ NoTimeline
    /\ NoRunner
    /\ playback = NewPlayback
    /\ stepped = None

SetPlaying ==
    /\ ~StepPanicked
    /\ \E is_playing \in BOOLEAN :
           playback' = [playback EXCEPT !.is_playing = is_playing]
    /\ stepped' = None
    /\ UNCHANGED <<resolve_vars, sim_vars, call_vars, timeline_vars, runner_vars>>

SetRewind ==
    /\ ~StepPanicked
    /\ \E rewind \in {None} \cup {Some(f) : f \in RewindFactors} :
           playback' = [playback EXCEPT !.rewind = rewind]
    /\ stepped' = None
    /\ UNCHANGED <<resolve_vars, sim_vars, call_vars, timeline_vars, runner_vars>>

Seek ==
    /\ ~StepPanicked
    /\ \E current_time \in Durations :
           playback' = [playback EXCEPT !.current_time = current_time]
    /\ stepped' = None
    /\ UNCHANGED <<resolve_vars, sim_vars, call_vars, timeline_vars, runner_vars>>

PlaybackStep ==
    /\ ~StepPanicked
    /\ \E time_step \in TimeSteps, soft_end \in Durations, hard_end \in Durations :
           LET s == [before |-> playback, time_step |-> time_step,
                     soft_end |-> soft_end, hard_end |-> hard_end]
           IN  IF StepPanics(playback, time_step)
               THEN /\ playback' = playback
                    /\ stepped' = StepPanic(s)
               ELSE /\ playback' = AfterStep(playback, time_step, soft_end, hard_end)
                    /\ stepped' = Some(s)
    /\ UNCHANGED <<resolve_vars, sim_vars, call_vars, timeline_vars, runner_vars>>

PlaybackNext ==
    \/ SetPlaying
    \/ SetRewind
    \/ Seek
    \/ PlaybackStep

PlaybackSpec == PlaybackInit /\ [][PlaybackNext]_vars

-----------------------------------------------------------------------------
(* m_front/src/frames.rs: the timeline of frames.  A frame is named by the *)
(* order in which the producer made it; the channel is the queue of the    *)
(* messages sent and not yet received.                                      *)

MaxSent == 3

\* BTreeMap::insert: the value under an existing key is replaced
InsertIfVacant(map, key, value) ==
    [k \in DOMAIN map \cup {key} |-> IF k \in DOMAIN map THEN map[k] ELSE value]

Insert(map, key, value) ==
    [k \in DOMAIN map \cup {key} |-> IF k = key THEN value ELSE map[k]]

\* the keys of a BTreeMap in the order of its iterators
RECURSIVE Ascending(_)
Ascending(keys) ==
    IF keys = {} THEN <<>>
    ELSE Let(CHOOSE least \in keys : \A k \in keys : least <= k,
             LAMBDA least : <<least>> \o Ascending(keys \ {least}))

\* range(..timestamp), the end excluded
RangeTo(map, timestamp) ==
    SelectSeq(Ascending(DOMAIN map), LAMBDA k : k < timestamp)

\* range(..=timestamp)
RangeToInclusive(map, timestamp) ==
    SelectSeq(Ascending(DOMAIN map), LAMBDA k : k <= timestamp)

\* Iterator::last
Last(keys) == IF keys = <<>> THEN None ELSE Some(keys[Len(keys)])

NumFrames(map) == Cardinality(DOMAIN map)

LastFrameFor(map, timestamp) ==
    Let(Last(RangeToInclusive(map, timestamp)),
        LAMBDA last : IF IsSome(last)
                      THEN Some(<<Unwrap(last), map[Unwrap(last)]>>)
                      ELSE None)

Polling == IsSome(poll) /\ Unwrap(poll).running

TimelineInit ==
    /\ InitScene(TestResolveScene)
    /\ NoSimulation
    /\ NoCall
    /\ NoPlayback
    /\ NoTimeline
    /\ NoRunner

\* the producer sends the next frame, at any moment of the consumer
Send ==
    /\ Len(sent) < MaxSent
    /\ \E timestamp \in Durations :
           /\ frames_rx' = Append(frames_rx, <<timestamp, Len(sent) + 1>>)
           /\ sent' = Append(sent, <<timestamp, Len(sent) + 1>>)
    /\ UNCHANGED <<frames, poll, looked>>
    /\ UNCHANGED <<resolve_vars, sim_vars, call_vars, playback_vars, runner_vars>>

\* poll_frames is called
PollBegin ==
    /\ ~Polling
    /\ poll' = Some([running |-> TRUE, sent_before |-> Len(sent)])
    /\ UNCHANGED <<frames, frames_rx, sent, looked>>
    /\ UNCHANGED <<resolve_vars, sim_vars, call_vars, playback_vars, runner_vars>>

\* try_recv is Ok: the frame is inserted
PollRecv ==
    /\ Polling
    /\ frames_rx # <<>>
    /\ frames' = Insert(frames, Head(frames_rx)[1], Head(frames_rx)[2])
    /\ frames_rx' = Tail(frames_rx)
    /\ looked' = None
    /\ UNCHANGED <<sent, poll>>
    /\ UNCHANGED <<resolve_vars, sim_vars, call_vars, playback_vars, runner_vars>>

\* try_recv is Err (the channel is empty): poll_frames returns
PollReturn ==
    /\ Polling
    /\ frames_rx = <<>>
    /\ poll' = Some([Unwrap(poll) EXCEPT !.running = FALSE])
    /\ UNCHANGED <<frames, frames_rx, sent, looked>>
    /\ UNCHANGED <<resolve_vars, sim_vars, call_vars, playback_vars, runner_vars>>

\* last_frame_for(timestamp), between the calls of poll_frames
LookUp ==
    /\ ~Polling
    /\ \E timestamp \in Durations :
           looked' = Some([timestamp |-> timestamp,
                           found |-> LastFrameFor(frames, timestamp)])
    /\ UNCHANGED <<frames, frames_rx, sent, poll>>
    /\ UNCHANGED <<resolve_vars, sim_vars, call_vars, playback_vars, runner_vars>>

TimelineNext ==
    \/ Send
    \/ PollBegin
    \/ PollRecv
    \/ PollReturn
    \/ LookUp

TimelineSpec == TimelineInit /\ [][TimelineNext]_vars

----------------------------------------------------------------------------
(* m_runner, main.rs: the thread that generates the frames. Durations are  *)
(* whole numbers of time units as above.                                   *)

\* spec.time_step: main's simulation file gives 10 ms, a positive one
StepDurations == Durations \ {0}

\* a frame sent on the channel: its timestamp and its number
SentFrame(timestamp) == <<timestamp, Len(sent) + 1>>

\* main spawns the thread for a simulation of some duration and time step;
\* nothing has been sent, the receiver is with the front end
RunnerInit ==
    /\ InitScene(TestResolveScene)
    /\ NoSimulation
    /\ NoCall
    /\ NoPlayback
    /\ NoTimeline
    /\ \E time_step \in StepDurations, simulated \in Durations :
           runner = [thread |-> "first", current_time |-> 0,
                     time_step |-> time_step, duration |-> simulated,
                     receiver |-> "alive", send_failed |-> FALSE]

\* frames_tx.send: Err when the receiver was dropped; then the thread returns
SendFrame(to) ==
    IF runner.receiver = "dropped"
    THEN /\ runner' = [runner EXCEPT !.thread = "returned", !.send_failed = TRUE,
                                     !.current_time = to]
         /\ UNCHANGED <<frames_rx, sent>>
    ELSE /\ runner' = [runner EXCEPT !.thread = "loop", !.current_time = to]
         /\ frames_rx' = Append(frames_rx, SentFrame(to))
         /\ sent' = Append(sent, SentFrame(to))

\* "Add 0 frame"
SendFirstFrame ==
    /\ runner.thread = "first"
    /\ SendFrame(runner.current_time)
    /\ UNCHANGED <<frames, poll, looked>>
    /\ UNCHANGED <<resolve_vars, sim_vars, call_vars, playback_vars>>

\* one iteration of the while loop: integrator.step returns, the time
\* advances by the time step, the frame is sent
StepAndSend ==
    /\ runner.thread = "loop"
    /\ runner.current_time < runner.duration
    /\ SendFrame(runner.current_time + runner.time_step)
    /\ UNCHANGED <<frames, poll, looked>>
    /\ UNCHANGED <<resolve_vars, sim_vars, call_vars, playback_vars>>

\* one iteration of the while loop in which integrator.step panics: resolve
\* panics for a wall with a degenerate edge and in the wall resolver
StepPanicsInResolve ==
    /\ runner.thread = "loop"
    /\ runner.current_time < runner.duration
    /\ runner' = [runner EXCEPT !.thread = "panicked"]
    /\ UNCHANGED <<timeline_vars, resolve_vars, sim_vars, call_vars, playback_vars>>

\* one iteration of the while loop in which integrator.step does not return:
\* the loop of resolve does not end for a particle that touches two walls
StepNeverReturns ==
    /\ runner.thread = "loop"
    /\ runner.current_time < runner.duration
    /\ runner' = [runner EXCEPT !.thread = "stepping"]
    /\ UNCHANGED <<timeline_vars, resolve_vars, sim_vars, call_vars, playback_vars>>

\* the condition of the while loop is false: the closure returns
LeaveLoop ==
    /\ runner.thread = "loop"
    /\ ~(runner.current_time < runner.duration)
    /\ runner' = [runner EXCEPT !.thread = "returned"]
    /\ UNCHANGED <<timeline_vars, resolve_vars, sim_vars, call_vars, playback_vars>>

\* the front end ends and drops the timeline with the receiver
DropReceiver ==
    /\ runner.receiver = "alive"
    /\ runner' = [runner EXCEPT !.receiver = "dropped"]
    /\ frames_rx' = <<>>
    /\ UNCHANGED <<frames, sent, poll, looked>>
    /\ UNCHANGED <<resolve_vars, sim_vars, call_vars, playback_vars>>

RunnerNext ==
    \/ SendFirstFrame
    \/ StepAndSend
    \/ StepPanicsInResolve
    \/ StepNeverReturns
    \/ LeaveLoop
    \/ DropReceiver

RunnerSpec == RunnerInit /\ [][RunnerNext]_vars

----------------------------------------------------------------------------
(* Geometry the properties are stated with.                                *)

\* the point is strictly inside the polygon: a ray to the right of it
\* crosses an odd number of edges
InsidePolygon(point, polygon) ==
    Cardinality({k \in 0..(NumEdges(polygon) - 1) :
        Let(PolygonEdge(polygon, k), LAMBDA edge :
            /\ RGt(edge.begin.y, point.y) # RGt(edge.end.y, point.y)
            /\ RLt(point.x,
                   RAdd(edge.begin.x,
                        RDiv(RMul(RSub(point.y, edge.begin.y),
                                  RSub(edge.end.x, edge.begin.x)),
                             RSub(edge.end.y, edge.begin.y)))))}) % 2 = 1

\* the square of the distance from the point to the segment
DistanceSqToSegment(point, segment) ==
    Let(VSub(segment.end, segment.begin), LAMBDA along :
    Let(IF along = VZero THEN Zero
        ELSE RDiv(Dot(VSub(point, segment.begin), along), Dot(along, along)),
        LAMBDA at :
    Let(VSub(point, VAdd(segment.begin,
                         VMul(along, IF RLt(at, Zero) THEN Zero
                                     ELSE IF RGt(at, One) THEN One ELSE at))),
        LAMBDA apart : Dot(apart, apart))))

\* a disc of the radius about the point is outside the polygon and does not
\* overlap it (it may touch it)
ClearOfPolygon(point, radius, polygon) ==
    /\ ~InsidePolygon(point, polygon)
    /\ \A k \in 0..(NumEdges(polygon) - 1) :
           RGe(DistanceSqToSegment(point, PolygonEdge(polygon, k)),
               RMul(radius, radius))

RadiusOf(i) == scene.particle_classes[particles[i].class].radius

\* the candidate find_collisions_with_walls filters, for particle i and wall w
WallCandidate(i, w) ==
    FindParticleVsPolygonCollision(
        VSub(particles[i].position, VMul(particles[i].velocity, particle_time[i])),
        RadiusOf(i), particles[i].velocity, scene.walls[w].polygon)

\* the collisions the queue would get for e's pair from the present state
Recomputed(e) ==
    IF e.other[1] = "Particle"
    THEN FindCollisionsWithParticles(e.particle, {e.other[2]}, particles,
                                     scene.particle_classes, particle_time, timestep)
    ELSE FindCollisionsWithWalls(e.particle, particles[e.particle],
                                 scene.particle_classes[particles[e.particle].class],
                                 scene.walls, particle_time[e.particle], timestep)

\* an iteration of the loop has just resolved Unwrap(popped)
JustResolved == pc = "loop" /\ IsSome(popped)

\* test_resolve_long: "use larger epsilon to counter numerical errors buildup"
LoosenedEpsInverse == 100
ApproxEq(a, b) == RLt(RAbs(RSub(a, b)), Q(1, LoosenedEpsInverse))
VecApproxEq(a, b) == ApproxEq(a.x, b.x) /\ ApproxEq(a.y, b.y)

----------------------------------------------------------------------------
(* The properties.                                                         *)

\* C1: the collision an iteration pops is not later than any collision that
\* was queued when it was popped; so of two queued collisions with times
\* t1 < t2 the one at t2 is never popped while the one at t1 is still queued.
PopsEarliestFirst ==
    JustResolved =>
        /\ Unwrap(popped) \in prev.current_collisions
        /\ \A o \in prev.current_collisions : RLe(Unwrap(popped).time, o.time)

\* a collision was popped while a strictly later one was queued
PopsEarliestFirstWitness ==
    /\ JustResolved
    /\ \E o \in prev.current_collisions : RLt(Unwrap(popped).time, o.time)

\* C2: every call of resolve returns.  The loop has no input but its state
\* (particles, times and queue), so a call that returns is never twice in
\* the same state at the head of the loop.
LoopNeverRepeats == pc = "loop" => Snapshot \notin seen

\* C3: a particle that was outside a wall polygon and not overlapping it when
\* the call began never has, during or at the end of the call, its centre
\* inside that polygon.
NoTunnelling ==
    \A i \in 1..Len(particles) : \A w \in 1..Len(scene.walls) :
        ClearOfPolygon(at_call[i].position, RadiusOf(i), scene.walls[w].polygon)
            => ~InsidePolygon(particles[i].position, scene.walls[w].polygon)

\* C4: every queued collision, inserted at initialization or at recomputation,
\* has a time below the budget and not earlier than the simulated time of any
\* of its participants minus TIME_SEC_EPS.
InsertedInWindow ==
    \A e \in current_collisions :
        /\ RLt(e.time, timestep)
        /\ \A p \in Participants(e) : GtMinusTimeEps(e.time, particle_time[p])

\* a recomputation left out a wall candidate that lies in the past or at or
\* after the budget, and queued others
InsertedInWindowWitness ==
    /\ JustResolved
    /\ current_collisions # {}
    /\ \E i \in 1..Len(particles) : \E w \in 1..Len(scene.walls) :
           /\ IsSome(WallCandidate(i, w))
           /\ \/ RGe(Unwrap(WallCandidate(i, w))[1], timestep)
              \/ ~GtMinusTimeEps(Unwrap(WallCandidate(i, w))[1], particle_time[i])
           /\ \A e \in current_collisions :
                  ~(e.particle = i /\ e.other = OtherWall(w))

\* C5: inside the loop every queued collision is the one computed from the
\* present velocity and simulated time of its participants: a collision that
\* was queued for a participant of the resolved one is gone, unless the
\* recomputation produced it anew.
QueueIsFresh ==
    pc = "loop" => \A e \in current_collisions : e \in Recomputed(e)

\* the resolved collision had a participant with another collision queued,
\* which the queue no longer holds
QueueIsFreshWitness ==
    /\ JustResolved
    /\ \E e \in prev.current_collisions \ (current_collisions \cup {Unwrap(popped)}) :
           \E p \in Participants(Unwrap(popped)) : InvolvesParticle(e, p)

\* C6: after a collision that touched p is resolved, the queue holds the
\* collision of p with every other particle, of lower index too, and with
\* every wall, whose candidate passes the filter on its time.
RegeneratedForTouched ==
    JustResolved =>
        \A p \in Participants(Unwrap(popped)) :
            FindCollisionsWithParticles(p, 1..Len(particles), particles,
                                        scene.particle_classes, particle_time,
                                        timestep)
            \cup FindCollisionsWithWalls(p, particles[p],
                                         scene.particle_classes[particles[p].class],
                                         scene.walls, particle_time[p], timestep)
                \subseteq current_collisions

\* a touched particle got a collision with a particle of lower index
RegeneratedForTouchedWitness ==
    /\ JustResolved
    /\ \E e \in current_collisions :
           /\ e.particle \in Participants(Unwrap(popped))
           /\ e.other[1] = "Particle"
           /\ e.other[2] < e.particle

\* C7: resolving a collision changes the position, velocity and simulated
\* time of its participants only.
OnlyParticipantsChange ==
    JustResolved =>
        \A i \in 1..Len(particles) :
            i \notin Participants(Unwrap(popped)) =>
                /\ particles[i] = prev.particles[i]
                /\ particle_time[i] = prev.particle_time[i]

\* a collision at a later time than a moving bystander's was resolved
OnlyParticipantsChangeWitness ==
    /\ JustResolved
    /\ \E i \in 1..Len(particles) :
           /\ i \notin Participants(Unwrap(popped))
           /\ particles[i].velocity # VZero
           /\ RLt(particle_time[i], Unwrap(popped).time)

\* C8: when resolve returns, every particle is at its position at its last
\* resolution plus its velocity times (budget - its simulated time), with
\* that velocity; a particle no resolved collision touched is at its initial
\* position plus its velocity times the budget, its velocity unchanged.
AdvancedToEnd ==
    [][(pc = "loop" /\ pc' = "idle") =>
          \A i \in 1..Len(particles) :
              /\ particles'[i] =
                     [particles[i] EXCEPT !.position =
                         VAdd(@, VMul(particles[i].velocity,
                                      RSub(timestep, particle_time[i])))]
              /\ i \notin touched =>
                     particles'[i] =
                         [at_call[i] EXCEPT !.position =
                             VAdd(@, VMul(at_call[i].velocity, timestep))]]_vars

\* a call has returned that resolved a moving particle at a time after its
\* start and left another moving particle untouched
AdvancedToEndWitness ==
    /\ pc = "idle"
    /\ \E i \in touched :
           particles[i].velocity # VZero /\ RGt(particle_time[i], Zero)
    /\ \E i \in 1..Len(particles) :
           i \notin touched /\ particles[i].velocity # VZero

\* C9: between elastic walls, the particles simulated in steps end with the
\* positions and velocities, within the loosened tolerance, of the particles
\* simulated for the same duration in a single call.
StepsMatchSingleCall ==
    (/\ pc = "idle" /\ schedule = <<>> /\ IsSome(particles1) /\ ~repeated
     /\ \A w \in 1..Len(scene.walls) :
            scene.wall_classes[scene.walls[w].class].heat_conductivity = Zero)
        => \A i \in 1..Len(particles) :
               /\ VecApproxEq(Unwrap(particles1)[i].position, particles[i].position)
               /\ VecApproxEq(Unwrap(particles1)[i].velocity, particles[i].velocity)

\* C10 as stated: every resolved collision strictly advances the simulated
\* time of at least one participant.
StrictlyAdvances ==
    JustResolved =>
        \E p \in Participants(Unwrap(popped)) :
            RLt(prev.particle_time[p], particle_time[p])

\* C10 amended: every resolved collision sets the simulated time of each
\* participant to its own time, which is later than the participant's
\* previous simulated time minus TIME_SEC_EPS: the time may stand still.
AdvancesWithinTolerance ==
    JustResolved =>
        \A p \in Participants(Unwrap(popped)) :
            /\ particle_time[p] = Unwrap(popped).time
            /\ GtMinusTimeEps(particle_time[p], prev.particle_time[p])

\* a collision was resolved at the very time its participants were at
AdvancesWithinToleranceWitness ==
    /\ JustResolved
    /\ \A p \in Participants(Unwrap(popped)) :
           particle_time[p] = prev.particle_time[p]

\* C11 as stated: the times of the collisions resolved within one call form
\* a non-decreasing sequence.
ChronologicalOrder ==
    \A k \in 1..(Len(resolved_times) - 1) :
        RLe(resolved_times[k], resolved_times[k + 1])

\* C11 amended: each collision resolved within one call is later than the
\* one resolved before it minus TIME_SEC_EPS.
ChronologicalWithinTolerance ==
    \A k \in 1..(Len(resolved_times) - 1) :
        GtMinusTimeEps(resolved_times[k + 1], resolved_times[k])

\* a collision was resolved that is earlier than the one resolved before it
ChronologicalWithinToleranceWitness ==
    \E k \in 1..(Len(resolved_times) - 1) :
        RLt(resolved_times[k + 1], resolved_times[k])

\* C12: a wall polygon with a degenerate (zero-length) edge never causes a
\* fatal error; resolve skips the edge and completes.
DegenerateEdgeNeverFatal ==
    (\E w \in 1..Len(scene.walls) : HasDegenerateEdge(scene.walls[w].polygon))
        => pc # "panicked"

\* C19: a step of resolve leaves the number of particles, the class of each
\* particle, the class tables and the walls as they were.
ResolveKeepsFrame ==
    [][(pc = "loop" \/ pc' = "loop")
          => /\ scene' = scene
             /\ Len(particles') = Len(particles)
             /\ \A i \in 1..Len(particles) :
                    particles'[i].class = particles[i].class]_vars

\* a call has returned that changed the velocity of a particle
ResolveKeepsFrameWitness ==
    /\ pc = "idle"
    /\ resolved_times # <<>>
    /\ \E i \in 1..Len(particles) : particles[i].velocity # at_call[i].velocity

\* the wall resolver draws no random number that tells: no wall trades energy
DeterministicResolvers ==
    \A w \in 1..Len(scene.walls) :
        scene.wall_classes[scene.walls[w].class].heat_conductivity = Zero

\* C20: with deterministic velocity resolvers, a call of resolve on the same
\* particles, classes, walls and budget ends with the same particles,
\* whatever calls were made before it.
RepeatedCallAgrees ==
    (pc = "idle" /\ schedule = <<>> /\ repeated /\ DeterministicResolvers)
        => particles = Unwrap(particles1)

\* the repeated call has resolved collisions and returned
RepeatedCallAgreesWitness ==
    /\ pc = "idle" /\ schedule = <<>> /\ repeated /\ DeterministicResolvers
    /\ resolved_times # <<>>
    /\ particles # initial

\* C13: no particle class with a mass or a radius that is not positive is
\* ever constructed and put into a class table.
ClassesArePositive ==
    \A id \in DOMAIN sim.particle_classes :
        /\ RGt(sim.particle_classes[id].mass, Zero)
        /\ RGt(sim.particle_classes[id].radius, Zero)

\* C14: every particle and every wall stored in a Simulation has a class id
\* of the corresponding class table.
ClassIdsKnown ==
    /\ \A k \in 1..Len(sim.particles) :
           sim.particles[k].class \in DOMAIN sim.particle_classes
    /\ \A k \in 1..Len(sim.walls) :
           sim.walls[k].class \in DOMAIN sim.wall_classes

\* C15: a moving particle that meets a wall of a temperature >= 0 and a heat
\* conductivity in [0, 1] along a unit normal has a solution for dv: the call
\* does not panic.
SolutionForDvExists ==
    (/\ call.fn = "wall"
     /\ call.velocity1 # VZero
     /\ Dot(call.collision_normal, call.collision_normal) = One
     /\ RGe(call.wall_temperature, Zero)
     /\ RGe(call.wall_heat_conductivity, Zero)
     /\ RLe(call.wall_heat_conductivity, One))
        => ~CallPanicked

\* m1 v1 + m2 v2
Momentum(mass1, velocity1, mass2, velocity2) ==
    VAdd(VMul(velocity1, mass1), VMul(velocity2, mass2))

\* m1 |v1|^2 + m2 |v2|^2
TwiceEnergy(mass1, velocity1, mass2, velocity2) ==
    RAdd(RMul(mass1, Dot(velocity1, velocity1)),
         RMul(mass2, Dot(velocity2, velocity2)))

ParticlesSeparated == call.fn = "particles" /\ IsSome(returned)

\* the particles approached each other along the normal: the impulse is not 0
Approached ==
    /\ ParticlesSeparated
    /\ Dot(VSub(call.velocity1, call.velocity2), call.collision_normal) # Zero

\* C16: the total momentum m1 v1 + m2 v2 is the same before and after a
\* particle-particle resolution.
MomentumConserved ==
    ParticlesSeparated
        => Momentum(call.mass1, Unwrap(returned)[1],
                    call.mass2, Unwrap(returned)[2])
               = Momentum(call.mass1, call.velocity1, call.mass2, call.velocity2)

MomentumConservedWitness ==
    Approached /\ call.mass1 # call.mass2

\* C17: with restitution 0 the relative velocity after a particle-particle
\* resolution has no component along the normal.
InelasticLeavesNoNormalVelocity ==
    (ParticlesSeparated /\ call.coefficient_of_restitution = Zero)
        => Dot(VSub(Unwrap(returned)[1], Unwrap(returned)[2]),
               call.collision_normal) = Zero

InelasticLeavesNoNormalVelocityWitness ==
    Approached /\ call.coefficient_of_restitution = Zero

\* C18: with restitution 1 the quantity m1 |v1|^2 + m2 |v2|^2 is the same
\* before and after a particle-particle resolution.
ElasticConservesEnergy ==
    (ParticlesSeparated /\ call.coefficient_of_restitution = One)
        => TwiceEnergy(call.mass1, Unwrap(returned)[1],
                       call.mass2, Unwrap(returned)[2])
               = TwiceEnergy(call.mass1, call.velocity1,
                             call.mass2, call.velocity2)

ElasticConservesEnergyWitness ==
    Approached /\ call.coefficient_of_restitution = One

\* the step just taken
LastStep == Unwrap(stepped)

\* C21: after a step the current time is not later than the soft end nor
\* than the hard end it was given.
TimeWithinEnds ==
    StepReturned
        => /\ playback.current_time <= LastStep.soft_end
           /\ playback.current_time <= LastStep.hard_end

\* a step would have moved the time past an end and was clamped
TimeWithinEndsWitness ==
    /\ StepReturned
    /\ LastStep.before.current_time + LastStep.time_step
           > Min(LastStep.soft_end, LastStep.hard_end)
    /\ LastStep.before.is_playing
    /\ LastStep.before.rewind = None
    /\ LastStep.before.current_time < playback.current_time

\* C22: a step stops the playback exactly if the time has reached the hard
\* end; otherwise is_playing is as it was; and the hard end is not reached
\* while the soft end is before it.
StopsAtHardEndOnly ==
    StepReturned
        => /\ playback.current_time >= LastStep.hard_end => ~playback.is_playing
           /\ playback.current_time < LastStep.hard_end
                  => playback.is_playing = LastStep.before.is_playing
           /\ LastStep.soft_end < LastStep.hard_end
                  => playback.current_time < LastStep.hard_end

\* one step was clamped at the soft end and kept playing, or one reached the
\* hard end and stopped
StopsAtHardEndOnlyWitness ==
    /\ StepReturned
    /\ LastStep.before.is_playing
    /\ LastStep.before.current_time < playback.current_time
    /\ \/ /\ playback.current_time = LastStep.soft_end
          /\ LastStep.soft_end < LastStep.hard_end
          /\ playback.is_playing
       \/ /\ playback.current_time = LastStep.hard_end
          /\ ~playback.is_playing

IdleStep ==
    /\ StepReturned
    /\ ~LastStep.before.is_playing
    /\ LastStep.before.rewind = None

-----------------------------------------------------------------------------
(* The timeline of frames (TimelineSpec).                                   *)

Looked == Unwrap(looked)

\* the stored timestamps that are not after the one looked up
NotAfter(timestamp) == {k \in DOMAIN frames : k <= timestamp}

\* C24: last_frame_for(t) returns the stored frame with the greatest
\* timestamp not after t, and none when no stored timestamp is <= t (the
\* empty timeline included)
LastFrameForIsGreatestNotAfter ==
    IsSome(looked) =>
        IF NotAfter(Looked.timestamp) = {}
        THEN Looked.found = None
        ELSE /\ IsSome(Looked.found)
             /\ Unwrap(Looked.found)[1] \in NotAfter(Looked.timestamp)
             /\ \A k \in NotAfter(Looked.timestamp) : k <= Unwrap(Looked.found)[1]
             /\ Unwrap(Looked.found)[2] = frames[Unwrap(Looked.found)[1]]

\* a look-up on an exact match with frames stored before and after it
LastFrameForIsGreatestNotAfterWitness ==
    /\ IsSome(looked)
    /\ IsSome(Looked.found)
    /\ Unwrap(Looked.found)[1] = Looked.timestamp
    /\ \E k \in DOMAIN frames : k < Looked.timestamp
    /\ \E k \in DOMAIN frames : k > Looked.timestamp

\* poll_frames has returned; the frames sent before it was called
Polled == IsSome(poll) /\ ~Unwrap(poll).running
SentBefore == {sent[i] : i \in 1..Unwrap(poll).sent_before}

DistinctTimestamps ==
    \A i, j \in 1..Len(sent) : sent[i][1] = sent[j][1] => i = j

\* the frames received so far, and the last of them under a timestamp
Received == Len(sent) - Len(frames_rx)
LatestReceived(timestamp) ==
    CHOOSE i \in 1..Received :
        /\ sent[i][1] = timestamp
        /\ \A j \in 1..Received : sent[j][1] = timestamp => j <= i

-----------------------------------------------------------------------------
(* find_particle_vs_polygon_collision and find_circle_vs_origin_collision  *)
(* called on their own (CallSpec).                                          *)

PolygonCalled == call.fn = "polygon" /\ IsSome(returned)
Found == Unwrap(returned)

\* the plane of a face of the polygon of the call, the distance of the
\* particle's centre in front of it, and the speed at which it closes
FacePlane(k) == Unwrap(SegPlane(PolygonEdge(call.polygon, k)))
InFrontBy(k) == PlaneDistance(FacePlane(k), call.center)
ClosingSpeed(k) == RNeg(Dot(call.velocity, FacePlane(k).normal))

\* where the centre is when the perimeter is on the line of the face, and
\* the point of the perimeter that is on it
TouchTime(k) == RDiv(RSub(InFrontBy(k), call.radius), ClosingSpeed(k))
TouchPoint(k) ==
    VSub(VAdd(call.center, VMul(call.velocity, TouchTime(k))),
         VMul(FacePlane(k).normal, call.radius))

\* the particle moves toward the face, overlaps it by less than its radius
\* and touched it between its ends
OverlapsFace(k) ==
    /\ RGt(ClosingSpeed(k), Zero)
    /\ RGt(InFrontBy(k), Zero)
    /\ RLt(InFrontBy(k), call.radius)
    /\ RLt(Dot(VSub(TouchPoint(k), PolygonEdge(call.polygon, k).begin),
               VSub(TouchPoint(k), PolygonEdge(call.polygon, k).end)), Zero)

\* the centre is behind every face: deeper than the radius through one of
\* them, fully inside, or on the way out
CenterInside ==
    \A k \in 0..(NumEdges(call.polygon) - 1) : RLt(InFrontBy(k), Zero)

\* C26: a particle moving toward a face that it overlaps by less than its
\* radius gets a collision in the past with the face's outward normal; a
\* particle whose centre is inside the polygon gets none
FaceOverlapIsPastCollision ==
    PolygonCalled =>
        /\ \A k \in 0..(NumEdges(call.polygon) - 1) :
               OverlapsFace(k) =>
                   /\ IsSome(Found)
                   /\ RLt(Unwrap(Found)[1], Zero)
                   /\ Unwrap(Found)[2] = FacePlane(k).normal
        /\ CenterInside => Found = None

\* the second case of the test: centre 0.1 above the upper face, radius 0.5
FaceOverlapIsPastCollisionWitness ==
    /\ PolygonCalled
    /\ call.center = Vec2(I(3), Q(31, 10))
    /\ call.radius = Q(1, 2)
    /\ OverlapsFace(2)
    /\ Found = Some(<<Q(-1, 5), V(0, 1)>>)

OriginCalled == call.fn = "origin" /\ IsSome(returned)

\* the quadratic of the contact, |center1 + velocity1 t|^2 = radius1^2
ContactA == Dot(call.velocity1, call.velocity1)
ContactB == RMul(I(2), Dot(call.center1, call.velocity1))
ContactC == RSub(Dot(call.center1, call.center1), RMul(call.radius1, call.radius1))
Discriminant == RSub(RMul(ContactB, ContactB), RMul(I(4), RMul(ContactA, ContactC)))
DistanceSqAt(t) ==
    Let(VAdd(call.center1, VMul(call.velocity1, t)), LAMBDA at : Dot(at, at))

Approaching == RLt(Dot(call.velocity1, call.center1), Zero)
Overlapping == RLt(ContactC, Zero)
ExactRoots == RMul(Sqrt(Discriminant), Sqrt(Discriminant)) = Discriminant

\* t is the smaller root: the circle is on the origin at t and still closing
\* (the root is exact when the square root is; otherwise the computed time is
\* between the root and the closest approach)
IsSmallerRoot(t) ==
    /\ RLt(Dot(call.velocity1, VAdd(call.center1, VMul(call.velocity1, t))), Zero)
    /\ RLe(DistanceSqAt(t), RMul(call.radius1, call.radius1))
    /\ ExactRoots => DistanceSqAt(t) = RMul(call.radius1, call.radius1)

Grazing ==
    /\ Approaching
    /\ Discriminant = Zero
    /\ Dot(call.velocity1,
           VAdd(call.center1,
                VMul(call.velocity1,
                     RDiv(RNeg(ContactB), RMul(I(2), ContactA))))) = Zero

\* C28: an exact tangent is reported as no collision, though the quadratic
\* has a double real root
TangentIsNoCollision == (OriginCalled /\ Grazing) => Found = None

\* the last case of the test: center (1, -5), radius 1, velocity (0, 2)
TangentIsNoCollisionWitness ==
    /\ OriginCalled
    /\ Grazing
    /\ call.center1 = V(1, -5)
    /\ call.radius1 = One
    /\ call.velocity1 = V(0, 2)
    /\ Found = None


-----------------------------------------------------------------------------
(* The queue of resolve: one event per pair, and an event for every pair   *)
(* that has one to come (Spec).                                             *)

\* the pair of an event: two particles in either order, or a particle and
\* a wall
PairOf(c) ==
    IF c.other[1] = "Particle"
    THEN <<"Particle", Min(c.particle, c.other[2]), Max(c.particle, c.other[2])>>
    ELSE <<"Wall", c.particle, c.other[2]>>

CandidatesOf(i) ==
    FindCollisionsWithParticles(i, 1..Len(particles), particles,
                                scene.particle_classes, particle_time, timestep)
        \cup FindCollisionsWithWalls(i, particles[i],
                                     scene.particle_classes[particles[i].class],
                                     scene.walls, particle_time[i], timestep)

\* C30: at every iteration of the loop and when the queue is drained, every
\* pair that has a candidate inside the window has an event in the queue
QueueComplete ==
    pc = "loop" =>
        \A i \in 1..Len(particles) :
            \A candidate \in CandidatesOf(i) :
                \E c \in current_collisions : PairOf(c) = PairOf(candidate)

\* after some iterations, an event of a pair that took part in none of them
\* is still in the queue beside a recomputed one
QueueCompleteWitness ==
    /\ pc = "loop"
    /\ IsSome(popped)
    /\ \E c1 \in current_collisions, c2 \in current_collisions :
           /\ Participants(c1) \cap touched = {}
           /\ Participants(c2) \cap Participants(Unwrap(popped)) # {}


-----------------------------------------------------------------------------
(* The search for wall collisions against the candidates of the polygon    *)
(* (Spec).                                                                  *)

\* the vertex and edge candidates <<time, normal>> of particle i against
\* wall w, from the particle brought to t = 0
WallCandidates(i, w) ==
    Let(VSub(particles[i].position, VMul(particles[i].velocity, particle_time[i])),
        LAMBDA pos :
            {Unwrap(c) :
                c \in {IF k < Len(scene.walls[w].polygon)
                       THEN VertexCandidate(pos,
                                scene.particle_classes[particles[i].class].radius,
                                particles[i].velocity, scene.walls[w].polygon, k)
                       ELSE EdgeCandidate(pos,
                                scene.particle_classes[particles[i].class].radius,
                                particles[i].velocity, scene.walls[w].polygon,
                                k - Len(scene.walls[w].polygon)) :
                       k \in 0..(2 * Len(scene.walls[w].polygon) - 1)} \ {None}})

\* a time inside the window of particle i
InWindowOf(i, t) == GtMinusTimeEps(t, particle_time[i]) /\ RLt(t, timestep)

\* the events find_collisions_with_walls reports for particle i
WallEventsOf(i) ==
    FindCollisionsWithWalls(i, particles[i],
                            scene.particle_classes[particles[i].class],
                            scene.walls, particle_time[i], timestep)

\* C31: a particle that has a vertex or edge candidate against a wall inside
\* the window gets an event for that wall from find_collisions_with_walls
InWindowCandidateIsReported ==
    pc = "loop" =>
        \A i \in 1..Len(particles), w \in 1..Len(scene.walls) :
            (\E candidate \in WallCandidates(i, w) : InWindowOf(i, candidate[1]))
                => \E c \in WallEventsOf(i) : c.other = OtherWall(w)


-----------------------------------------------------------------------------
(* The simulated times of the particles (Spec).                             *)

\* C32 as stated: at every point of a call of resolve each particle's
\* simulated time is strictly less than the time budget
SimulatedTimeBelowBudget ==
    pc = "loop" => \A i \in 1..Len(particles) : RLt(particle_time[i], timestep)

\* C32 amended: at every point of a call of resolve each particle's simulated
\* time is at most the time budget, and strictly less when the budget is
\* positive: the final advancement never moves a particle backward in time
SimulatedTimeWithinBudget ==
    pc = "loop" =>
        \A i \in 1..Len(particles) :
            /\ RLe(particle_time[i], timestep)
            /\ RGt(timestep, Zero) => RLt(particle_time[i], timestep)

\* the queue is drained after a collision was resolved at a time after the
\* start: the particles are about to be advanced to the end
SimulatedTimeWithinBudgetWitness ==
    /\ pc = "loop"
    /\ current_collisions = {}
    /\ \E i \in touched : RGt(particle_time[i], Zero)
    /\ \E i \in 1..Len(particles) : i \notin touched


\* C33: a resolution never lowers a particle's simulated time by
\* TIME_SEC_EPS or more: the time after it is later than the time before
\* it minus the tolerance, for the participants and for the others
NeverRegressesBeyondTolerance ==
    JustResolved =>
        \A i \in 1..Len(particles) :
            GtMinusTimeEps(particle_time[i], prev.particle_time[i])

\* a resolution has lowered the simulated time of its participants
NeverRegressesBeyondToleranceWitness ==
    /\ JustResolved
    /\ \A p \in Participants(Unwrap(popped)) :
           RLt(particle_time[p], prev.particle_time[p])

\* C34: after an event at time t is resolved, each participant has the
\* simulated time t and the position it had before, advanced with its
\* velocity of before from its own simulated time of before to t
ParticipantsAdvancedToEvent ==
    JustResolved =>
        \A p \in Participants(Unwrap(popped)) :
            /\ particle_time[p] = Unwrap(popped).time
            /\ particles[p].position =
                   VAdd(prev.particles[p].position,
                        VMul(prev.particles[p].velocity,
                             RSub(Unwrap(popped).time, prev.particle_time[p])))

\* a particle-particle event has been resolved whose participants, both
\* moving, had different simulated times before
ParticipantsAdvancedToEventWitness ==
    /\ JustResolved
    /\ Unwrap(popped).other[1] = "Particle"
    /\ prev.particle_time[Unwrap(popped).particle]
           # prev.particle_time[Unwrap(popped).other[2]]
    /\ \A p \in Participants(Unwrap(popped)) : prev.particles[p].velocity # VZero

----------------------------------------------------------------------------
(* the contact normal of two particles                                     *)

NormalCalled == call.fn = "normal" /\ IsSome(returned)
PairCalled == call.fn = "pair" /\ IsSome(returned)
CenterOffset == VSub(call.center2, call.center1)
RelativeVelocity == VSub(call.velocity2, call.velocity1)

\* n has the direction of a and the length one, within what the square root
\* of the length of a vector not shorter than one leaves open
UnitAlong(n, a) ==
    /\ Cross(n, a) = Zero
    /\ RGt(Dot(n, a), Zero)
    /\ RLe(RAbs(RSub(Dot(n, n), One)), Q(3, SqrtScale))

----------------------------------------------------------------------------
(* the corners of a polygon                                                *)

CornerCalled == call.fn = "corner" /\ IsSome(returned)

\* the vertices k-1 (cyclically), k and k+1 (cyclically) of a polygon
CornerVertices(polygon, k) ==
    <<polygon[((k + Len(polygon) - 1) % Len(polygon)) + 1], polygon[k + 1],
      polygon[((k + 1) % Len(polygon)) + 1]>>

\* the point is strictly on the outer side of the line from `from` to `to`
StrictlyInFront(from, to, point) ==
    RGt(Cross(VSub(point, from), VSub(to, from)), Zero)

ConvexCorner(polygon, k) ==
    Let(CornerVertices(polygon, k), LAMBDA c :
        RGt(Cross(VSub(c[2], c[1]), VSub(c[3], c[2])), Zero))

OutsideCorner(polygon, k, point) ==
    Let(CornerVertices(polygon, k), LAMBDA c :
        IF ConvexCorner(polygon, k)
        THEN StrictlyInFront(c[1], c[2], point) \/ StrictlyInFront(c[2], c[3], point)
        ELSE StrictlyInFront(c[1], c[2], point) /\ StrictlyInFront(c[2], c[3], point))

\* the collision found for the particle is a contact with vertex k: at its time
\* the centre is one radius from the vertex, and the normal points from the
\* vertex to the centre
IsVertexContact(k) ==
    /\ IsSome(Found)
    /\ Let(VSub(VAdd(call.center, VMul(call.velocity, Unwrap(Found)[1])),
                call.polygon[k + 1]), LAMBDA offset :
           /\ UnitAlong(Unwrap(Found)[2], offset)
           /\ RLe(RAbs(RSub(Dot(offset, offset), RMul(call.radius, call.radius))),
                  Q(1, 100)))

\* C36: a point is outside a convex corner when it is strictly in front of
\* the plane of either adjacent edge and outside a concave corner when it is
\* strictly in front of both; a particle gets a contact with a vertex of a
\* polygon only when its centre is outside the corner of that vertex
OutsideCornerEitherOrBoth ==
    /\ CornerCalled =>
           (Found <=> OutsideCorner(call.polygon, call.vertex_index, call.point))
    /\ PolygonCalled =>
           \A k \in 0..(Len(call.polygon) - 1) :
               IsVertexContact(k) => OutsideCorner(call.polygon, k, call.center)

\* a point in front of one plane only of a concave corner was found inside it
OutsideCornerEitherOrBothWitness ==
    /\ CornerCalled
    /\ ~ConvexCorner(call.polygon, call.vertex_index)
    /\ Let(CornerVertices(call.polygon, call.vertex_index), LAMBDA c :
           StrictlyInFront(c[1], c[2], call.point)
               /\ ~StrictlyInFront(c[2], c[3], call.point))
    /\ ~Found

----------------------------------------------------------------------------
(* the earliest contact of a particle with a polygon                       *)

\* the pairs <<time, normal>> that the vertices and the edges of the polygon
\* give for the particle of the call
PolygonCandidates ==
    {Unwrap(c) :
        c \in ({VertexCandidate(call.center, call.radius, call.velocity,
                                call.polygon, k) :
                    k \in 0..(Len(call.polygon) - 1)}
                \cup {EdgeCandidate(call.center, call.radius, call.velocity,
                                    call.polygon, k) :
                         k \in 0..(NumEdges(call.polygon) - 1)}) \ {None}}

\* C37: the collision of a particle with a polygon is one of the candidates of
\* its vertices and edges, time and normal together, none of the candidates
\* is earlier, and there is no collision exactly when there is no candidate
EarliestCandidateWithItsNormal ==
    PolygonCalled =>
        /\ (Found = None) <=> (PolygonCandidates = {})
        /\ IsSome(Found) =>
               /\ Unwrap(Found) \in PolygonCandidates
               /\ \A c \in PolygonCandidates : RLe(Unwrap(Found)[1], c[1])

\* a vertex and an edge, or two of either, gave candidates at different times
\* with different normals
EarliestCandidateWithItsNormalWitness ==
    /\ PolygonCalled
    /\ IsSome(Found)
    /\ \E c \in PolygonCandidates :
           /\ RLt(Unwrap(Found)[1], c[1])
           /\ c[2] # Unwrap(Found)[2]

----------------------------------------------------------------------------
(* rewinding                                                               *)

\* the last step was taken with a rewind factor set, and returned
RewindStep == StepReturned /\ IsSome(LastStep.before.rewind)
RewindFactor == Unwrap(LastStep.before.rewind)

\* a step with a rewind factor moves the time by time_step times the factor,
\* playing or not, backwards not below zero, before the time is held at the
\* ends
RewindOverridesAndSaturates ==
    RewindStep =>
        playback.current_time =
            Min(IF RewindFactor < 0
                THEN Max(0, LastStep.before.current_time
                                + LastStep.time_step * RewindFactor)
                ELSE LastStep.before.current_time
                        + LastStep.time_step * RewindFactor,
                Min(LastStep.soft_end, LastStep.hard_end))

\* C38: a step with a rewind factor moves the time by time_step times the
\* factor whether the control plays or not, a negative factor moves it back
\* and not below zero, and no step with a negative factor fails, whatever
\* the time step
RewindNeverFails ==
    /\ RewindOverridesAndSaturates
    /\ ~(StepPanicked /\ Mult(stepped[2].before) < 0)

----------------------------------------------------------------------------
(* the frame thread                                                        *)

\* the timestamps of the frames sent, in the order of sending
SentTimestamps == [k \in 1..Len(sent) |-> sent[k][1]]

\* the thread is between two sends or has returned
BetweenSends == runner.thread \in {"loop", "returned"}

\* the frames sent are those of the times 0, time_step, 2 time_step, ... in
\* this order, one per step; the loop goes on exactly while the last
\* timestamp is before the duration, and a thread that returned has sent a
\* frame at or after the duration or has had a send fail
FramesInStepOrder ==
    BetweenSends =>
        /\ \A k \in 1..Len(sent) : SentTimestamps[k] = (k - 1) * runner.time_step
        /\ \A k \in 1..(Len(sent) - 1) :
               /\ SentTimestamps[k] < SentTimestamps[k + 1]
               /\ SentTimestamps[k] < runner.duration
        /\ runner.thread = "returned" =>
               \/ runner.send_failed
               \/ /\ sent # <<>>
                  /\ SentTimestamps[Len(sent)] >= runner.duration
        /\ runner.send_failed => runner.thread = "returned"

====
